---- MODULE Spec2Model ----
(***************************************************************************)
(* Inbound command plane of openslack: Policy, rate Limiter, approval      *)
(* Store, op Registry and the Dispatcher that threads a message through    *)
(* them; the hot Reloader of the dynamic ops; the connector Manager and    *)
(* its Router.  Time is counted in minutes.  Every mutex-protected method  *)
(* is one atomic step; a Handle call, a reload and a connector call are    *)
(* sequences of such steps, so concurrent calls interleave between them.   *)
(***************************************************************************)
EXTENDS Integers, Sequences, FiniteSets, TLC

VARIABLES
    now,        \* the wall clock, in minutes
    seen,       \* Policy.seen: set of update ids
    seenOrder,  \* Policy.seenOrder: FIFO of update ids
    polCall,    \* the last Policy.Authorize call made through the API and its result
    items,      \* approval Store.items: nonce -> pending
    nonceCtr,   \* how many nonces generateNonce has returned
    created,    \* history: nonce -> the (chat, op, args) given to the Create that returned it
    consumed,   \* history: the nonces a Consume has returned successfully
    stCall,     \* the last Store call made through the API and its result
    records,    \* Limiter.records: chat -> record
    fails,      \* history: chat -> the times of its RecordFailure calls since its record was last cleared
    limCall,    \* the last Limiter call made through the API and its result
    registry,   \* ops.Registry.ops: name -> op
    security,   \* which of Dispatcher.totp, .limiter, .approvals are attached
    sem,        \* len(Dispatcher.sem): the execution slots held
    hs,         \* the Handle calls: goroutine -> where it is and what it holds
    tail,       \* history: chat -> how many of its latest messages failed the TOTP check in a row
    latest,     \* history: chat -> the goroutine of its newest message, while that message's outcome is open
    reloader,   \* core.Reloader: its tracked names, its manager and where its running reload is
    told,       \* history: the names TrackShellOps and TrackConnectorOps were given
    procs,      \* connector.Manager.procs: connector -> its pipes, its lock and its child
    calls,      \* the Router.Call and Manager.Call calls: caller -> where it is and what it holds
    reqCtr,     \* how many request ids the Router has generated
    totpCall,   \* the last TOTP.Verify call made through the API and its result
    taskFile,   \* tasks.json: the persisted tasks, in the order of the file
    today,      \* the local calendar day, as a number
    sched,      \* tasks.Scheduler: where its runTick is and the tasks it holds
    picked,     \* history: (task, day) -> how often PrepareDailyReminder returned the task for the day
    tg,         \* the Telegram server: every update it ever had and the offset it was last asked for
    rcv,        \* telegram_receiver.Receiver: its offset, the updates of its last poll still to do, its place in the loop
    handled,    \* history: the update ids handed to the handler, in order
    files,      \* the file system: each path's modification time (zero: no file) and the changes made so far
    w           \* configwatch.Watcher: its entries, its place in poll, and per entry the callbacks made

polVars == <<seen, seenOrder, polCall>>
stVars == <<items, nonceCtr, created, consumed, stCall>>
limVars == <<records, fails, limCall>>
dispVars == <<registry, security, sem, hs, tail, latest>>
relVars == <<reloader, told>>
connVars == <<procs, calls, reqCtr>>
taskVars == <<taskFile, today, sched, picked>>
rcvVars == <<tg, rcv, handled>>
watchVars == <<files, w>>
edgeVars == <<totpCall, taskFile, today, sched, picked, tg, rcv, handled, files, w>>
vars == <<now, seen, seenOrder, polCall, items, nonceCtr, created, consumed, stCall,
          records, fails, limCall, registry, security, sem, hs, tail, latest,
          reloader, told, procs, calls, reqCtr, totpCall, taskFile, today, sched, picked,
          tg, rcv, handled, files, w>>

NoVal == "-"

\* The call records when the last step was no call through the API.  gone
\* is history: the ids that the calls through the API have evicted so far.
NoPolCall == [chat |-> 0, upd |-> 0, age |-> 0, err |-> NoVal, gone |-> {}]
NoStCall == [op |-> NoVal, chat |-> 0, err |-> NoVal, nonce |-> <<>>, ret |-> NoVal]
NoLimCall == [op |-> NoVal, chat |-> 0, err |-> FALSE, cleared |-> FALSE]

(***************************************************************************)
(* TOTP verifier (core/auth/totp.go)                                       *)
(***************************************************************************)
totpPeriod == 30
totpDigits == 6
totpDrift == 1

\* The seconds of the verifier's clock and of the clocks codes are made for.
MaxSecond == 65
Seconds == 0..MaxSecond

\* ts.Unix() / totpPeriod
Counter(t) == t \div totpPeriod

\* generate(secret, counter): six decimal digits.  The HMAC is replaced by
\* the counter itself, so that the codes of distinct steps are distinct.
RECURSIVE Decimal(_, _)
Decimal(n, digits) ==
    IF digits = 0 THEN <<>> ELSE Append(Decimal(n \div 10, digits - 1), n % 10)

generate(counter) == Decimal(counter % 1000000, totpDigits)

\* t.Verify(code) when t.now() is t0
VerifyNoDrift(code, t0) ==
    /\ Len(code) = totpDigits
    /\ code = generate(Counter(t0))

VerifyAt(code, t0) ==
    /\ Len(code) = totpDigits
    /\ \E offset \in (0 - totpDrift)..totpDrift : code = generate(Counter(t0) + offset)

\* t0 is the second t.now() returns; no call has been made at it.
NoTotpCall == [t0 |-> 0, t |-> 0, code |-> <<>>, ok |-> FALSE]

\* The verifier's clock moves on by a second.
TotpTick ==
    /\ totpCall.t0 < MaxSecond
    /\ totpCall' = [NoTotpCall EXCEPT !.t0 = totpCall.t0 + 1]
    /\ UNCHANGED <<now, polVars, stVars, limVars, dispVars, relVars, connVars, taskVars, rcvVars, watchVars>>

\* A call of Verify with the code made for t (codeAt(secret, t)), or with
\* that code cut short.
VerifyCall(t, cut) ==
    /\ LET code == IF cut THEN Tail(generate(Counter(t))) ELSE generate(Counter(t))
       IN  totpCall' = [t0 |-> totpCall.t0, t |-> t, code |-> code,
                        ok |-> VerifyAt(code, totpCall.t0)]
    /\ UNCHANGED <<now, polVars, stVars, limVars, dispVars, relVars, connVars, taskVars, rcvVars, watchVars>>

(***************************************************************************)
(* Tasks (internal/tasks: Store, TaskService, Scheduler)                   *)
(*                                                                         *)
(* A date is the number of its day; last = 0 is a nil last_reminded_date.  *)
(* Store.Save writes a temporary file and renames it, so the file changes  *)
(* in one step or not at all.                                              *)
(***************************************************************************)
MaxTasks == 2
MaxDay == 3
TaskIDs == 1..MaxTasks
Days == 1..MaxDay

\* What Store.Save does: "ok"; "lost", an error before the rename; "kept",
\* an error after it (Chmod), with the file already replaced.
SaveOutcomes == {"ok", "lost", "kept"}

Saved(file, st, outcome) == IF outcome = "lost" THEN file ELSE st

\* TaskService.CreateTomorrow(text): a new open task that starts tomorrow.
CreateTomorrow(outcome) ==
    /\ Len(taskFile) < MaxTasks
    /\ taskFile' = Saved(taskFile,
                         Append(taskFile, [id |-> Len(taskFile) + 1, start |-> today + 1,
                                           status |-> "open", last |-> 0]),
                         outcome)
    /\ UNCHANGED <<now, polVars, stVars, limVars, dispVars, relVars, connVars, totpCall,
                   today, sched, picked, rcvVars, watchVars>>

\* TaskService.Complete(id) for an open task.
Complete(i, outcome) ==
    /\ i \in 1..Len(taskFile)
    /\ taskFile[i].status = "open"
    /\ taskFile' = Saved(taskFile, [taskFile EXCEPT ![i].status = "done"], outcome)
    /\ UNCHANGED <<now, polVars, stVars, limVars, dispVars, relVars, connVars, totpCall,
                   today, sched, picked, rcvVars, watchVars>>

\* PrepareDailyReminder(today): the indices it selects, and the state it saves.
selectedIdx(file, day) ==
    {i \in 1..Len(file) : /\ file[i].status = "open"
                          /\ ~(file[i].start > day)
                          /\ ~(file[i].last # 0 /\ file[i].last = day)}

MarkedNone(file, sel, day) == file

Marked(file, sel, day) ==
    [i \in 1..Len(file) |-> IF i \in sel THEN [file[i] EXCEPT !.last = day] ELSE file[i]]

NoTick == [pc |-> "idle", due |-> {}, day |-> 0]

\* Scheduler.runTick up to its send: PrepareDailyReminder(today) selects,
\* marks, saves and returns the tasks, or nothing when the save failed.
TickPrepare(outcome) ==
    /\ sched.pc = "idle"
    /\ LET sel == selectedIdx(taskFile, today)
           ids == {taskFile[i].id : i \in sel}
       IN  IF sel = {}
           THEN UNCHANGED <<taskFile, sched, picked>>
           ELSE /\ taskFile' = Saved(taskFile, Marked(taskFile, sel, today), outcome)
                /\ IF outcome = "ok"
                   THEN /\ sched' = [pc |-> "send", due |-> ids, day |-> today]
                        /\ picked' = [x \in DOMAIN picked |->
                               IF x[1] \in ids /\ x[2] = today
                               THEN (IF picked[x] < 2 THEN picked[x] + 1 ELSE 2)
                               ELSE picked[x]]
                   ELSE UNCHANGED <<sched, picked>>
    /\ UNCHANGED <<now, polVars, stVars, limVars, dispVars, relVars, connVars, totpCall, today, rcvVars, watchVars>>

\* s.send(sendCtx, FormatReminderMessage(today, due)) returns, with or
\* without an error, and runTick returns.
TickSend ==
    /\ sched.pc = "send"
    /\ sched' = NoTick
    /\ UNCHANGED <<now, polVars, stVars, limVars, dispVars, relVars, connVars, totpCall,
                   taskFile, today, picked, rcvVars, watchVars>>

\* The daemon is stopped and started again: only the file is kept.
Restart ==
    /\ sched' = NoTick
    /\ sched # NoTick
    /\ UNCHANGED <<now, polVars, stVars, limVars, dispVars, relVars, connVars, totpCall,
                   taskFile, today, picked, rcvVars, watchVars>>

\* Midnight.
NextDay ==
    /\ today < MaxDay
    /\ today' = today + 1
    /\ UNCHANGED <<now, polVars, stVars, limVars, dispVars, relVars, connVars, totpCall,
                   taskFile, sched, picked, rcvVars, watchVars>>

TasksInit ==
    /\ taskFile = <<>>
    /\ today = 1
    /\ sched = NoTick
    /\ picked = [x \in TaskIDs \X Days |-> 0]

(***************************************************************************)
(* Telegram receiver (adapters/telegram_receiver/receiver.go)              *)
(*                                                                         *)
(* The server numbers its updates upwards and answers getUpdates with the  *)
(* updates whose id is at least the offset, oldest first.                  *)
(***************************************************************************)
MaxUpdates == 3

\* An update: with a text, with a message without text, or without message.
UpdateKinds == {"text", "notext", "nomessage"}

\* u.Message == nil || u.Message.Text == ""
NoText(u) == u.kind # "text"

\* The server receives a message; its id may skip a number.
Arrive(kind, gap) ==
    /\ Len(tg.all) < MaxUpdates
    /\ tg' = [tg EXCEPT !.all = Append(@, [id |-> tg.last + 1 + gap, kind |-> kind]),
                        !.last = tg.last + 1 + gap]
    /\ UNCHANGED <<now, polVars, stVars, limVars, dispVars, relVars, connVars, totpCall,
                   taskVars, rcv, handled, watchVars>>

\* The updates the server returns for an offset.
RECURSIVE From(_, _)
From(all, offset) ==
    IF all = <<>> THEN <<>>
    ELSE IF Head(all).id < offset THEN From(Tail(all), offset)
    ELSE all

\* r.poll(ctx) returns the first n updates the server has for r.offset.
Poll(n) ==
    /\ rcv.pc = "loop"
    /\ rcv.batch = <<>>
    /\ n <= Len(From(tg.all, rcv.offset))
    /\ rcv' = [rcv EXCEPT !.batch = SubSeq(From(tg.all, rcv.offset), 1, n), !.polls = 1]
    /\ tg' = [tg EXCEPT !.asked = rcv.offset]
    /\ UNCHANGED <<now, polVars, stVars, limVars, dispVars, relVars, connVars, totpCall,
                   taskVars, handled, watchVars>>

\* An update without text: the offset moves on and the handler is not called.
SkipKeepsOffset ==
    /\ rcv.pc = "loop"
    /\ rcv.batch # <<>>
    /\ NoText(Head(rcv.batch))
    /\ rcv' = [rcv EXCEPT !.batch = Tail(@)]
    /\ UNCHANGED <<now, polVars, stVars, limVars, dispVars, relVars, connVars, totpCall,
                   taskVars, tg, handled, watchVars>>

Skip ==
    /\ rcv.pc = "loop"
    /\ rcv.batch # <<>>
    /\ NoText(Head(rcv.batch))
    /\ rcv' = [rcv EXCEPT !.batch = Tail(@), !.offset = Head(rcv.batch).id + 1]
    /\ UNCHANGED <<now, polVars, stVars, limVars, dispVars, relVars, connVars, totpCall,
                   taskVars, tg, handled, watchVars>>

\* r.handler(msg) is called for an update with text.
CallHandler ==
    /\ rcv.pc = "loop"
    /\ rcv.batch # <<>>
    /\ ~NoText(Head(rcv.batch))
    /\ rcv' = [rcv EXCEPT !.pc = "handler"]
    /\ handled' = Append(handled, Head(rcv.batch).id)
    /\ UNCHANGED <<now, polVars, stVars, limVars, dispVars, relVars, connVars, totpCall,
                   taskVars, tg, watchVars>>

\* The handler returns: r.offset = u.UpdateID + 1.
HandlerReturns ==
    /\ rcv.pc = "handler"
    /\ rcv' = [rcv EXCEPT !.pc = "loop", !.batch = Tail(@), !.offset = Head(rcv.batch).id + 1]
    /\ UNCHANGED <<now, polVars, stVars, limVars, dispVars, relVars, connVars, totpCall,
                   taskVars, tg, handled, watchVars>>

ReceiverInit ==
    /\ tg = [all |-> <<>>, last |-> 0, asked |-> 0]
    /\ rcv = [offset |-> 0, batch |-> <<>>, pc |-> "loop", polls |-> 0]
    /\ handled = <<>>

(***************************************************************************)
(* Config watcher (core/configwatch/watcher.go)                            *)
(***************************************************************************)
MaxEntries == 2
MaxMtime == 2
MaxWrites == 4

Paths == {"commands", "connectors"}
Mtimes == 1..MaxMtime

\* The zero time.Time, which fileModTime returns when os.Stat fails.
NoFile == 0

fileModTime(path) == files.mtime[path]

\* The file is written (created or changed), with any modification time.
WriteFile(path, t) ==
    /\ files.writes < MaxWrites
    /\ t # files.mtime[path]
    /\ files' = [files EXCEPT !.mtime[path] = t, !.writes = @ + 1]
    /\ UNCHANGED <<now, polVars, stVars, limVars, dispVars, relVars, connVars, totpCall,
                   taskVars, rcvVars, w>>

DeleteFile(path) ==
    /\ files.writes < MaxWrites
    /\ files.mtime[path] # NoFile
    /\ files' = [files EXCEPT !.mtime[path] = NoFile, !.writes = @ + 1]
    /\ UNCHANGED <<now, polVars, stVars, limVars, dispVars, relVars, connVars, totpCall,
                   taskVars, rcvVars, w>>

\* Watch(path, cb), under the mutex.
Watch(path) ==
    /\ w.i = 0
    /\ Len(w.entries) < MaxEntries
    /\ w' = [w EXCEPT !.entries = Append(@, [path |-> path, modTime |-> fileModTime(path)]),
                      !.calls = Append(@, 0)]
    /\ UNCHANGED <<now, polVars, stVars, limVars, dispVars, relVars, connVars, totpCall,
                   taskVars, rcvVars, files>>

\* A tick: poll takes the mutex and starts at the first entry.
PollBegin ==
    /\ w.i = 0
    /\ w.entries # <<>>
    /\ w' = [w EXCEPT !.i = 1]
    /\ UNCHANGED <<now, polVars, stVars, limVars, dispVars, relVars, connVars, totpCall,
                   taskVars, rcvVars, files>>

\* Where poll goes after entry i.
AfterEntry(i) == IF i = Len(w.entries) THEN 0 ELSE i + 1

PollEntryCallsOnMissing ==
    /\ w.i > 0
    /\ IF fileModTime(w.entries[w.i].path) = w.entries[w.i].modTime
       THEN w' = [w EXCEPT !.i = AfterEntry(w.i)]
       ELSE w' = [w EXCEPT !.i = AfterEntry(w.i),
                           !.entries[w.i].modTime = fileModTime(w.entries[w.i].path),
                           !.calls[w.i] = @ + 1]
    /\ UNCHANGED <<now, polVars, stVars, limVars, dispVars, relVars, connVars, totpCall,
                   taskVars, rcvVars, files>>

\* One turn of poll's loop: stat, compare, record and call back.
PollEntry ==
    /\ w.i > 0
    /\ IF \/ fileModTime(w.entries[w.i].path) = NoFile
          \/ fileModTime(w.entries[w.i].path) = w.entries[w.i].modTime
       THEN w' = [w EXCEPT !.i = AfterEntry(w.i)]
       ELSE w' = [w EXCEPT !.i = AfterEntry(w.i),
                           !.entries[w.i].modTime = fileModTime(w.entries[w.i].path),
                           !.calls[w.i] = @ + 1]
    /\ UNCHANGED <<now, polVars, stVars, limVars, dispVars, relVars, connVars, totpCall,
                   taskVars, rcvVars, files>>

WatcherInit ==
    /\ files = [mtime |-> [p \in Paths |-> NoFile], writes |-> 0]
    /\ w = [entries |-> <<>>, i |-> 0, calls |-> <<>>]

EdgeInit ==
    /\ totpCall = NoTotpCall
    /\ TasksInit
    /\ ReceiverInit
    /\ WatcherInit

(***************************************************************************)
(* Policy (core/policy/policy.go)                                          *)
(***************************************************************************)
\* Chats of the model: 100 and 200 are allowlisted, 999 is not.
Chats == {100, 200, 999}
allowed == {100, 200}

freshnessWindow == 5
\* The capacity of the dedup set and the size of an eviction, scaled down
\* from 10000 and 1000 so that evictions happen within the model's bounds.
maxSeenIDs == 2
pruneCount == 1

\* Update ids the API-level Policy specification draws from.
MaxUpdateID == 3
UpdateIDs == 1..MaxUpdateID
\* Ages (now - timestamp) of incoming messages: fresh, at the limit, stale.
Ages == {0, freshnessWindow, freshnessWindow + 1}

\* s[n+1..]: the slice s[n:] of Go
DropFirst(s, n) == SubSeq(s, n + 1, Len(s))

Range(s) == {s[i] : i \in 1..Len(s)}

\* The result of Authorize(chat, upd, ts) where age = now - ts.
AuthorizeMissingDedup(chat, upd, age) ==
    IF chat \notin allowed THEN "unauthorized"
    ELSE IF age > freshnessWindow THEN "stale"
    ELSE "ok"

AuthorizeMissingAllowlist(chat, upd, age) ==
    IF age > freshnessWindow THEN "stale"
    ELSE IF upd \in seen THEN "duplicate"
    ELSE "ok"

AuthorizeStaleAtLimit(chat, upd, age) ==
    IF chat \notin allowed THEN "unauthorized"
    ELSE IF age >= freshnessWindow THEN "stale"
    ELSE IF upd \in seen THEN "duplicate"
    ELSE "ok"

AuthorizeResult(chat, upd, age) ==
    IF chat \notin allowed THEN "unauthorized"
    ELSE IF age > freshnessWindow THEN "stale"
    ELSE IF upd \in seen THEN "duplicate"
    ELSE "ok"

\* The ids Authorize deletes from seen before it inserts: the first pruneCount
\* entries of seenOrder when the set is at capacity.
EvictedNewest ==
    IF Cardinality(seen) >= maxSeenIDs
    THEN {seenOrder[i] : i \in (Len(seenOrder) - pruneCount + 1)..Len(seenOrder)}
    ELSE {}

Evicted ==
    IF Cardinality(seen) >= maxSeenIDs
    THEN {seenOrder[i] : i \in 1..(IF pruneCount < Len(seenOrder) THEN pruneCount ELSE Len(seenOrder))}
    ELSE {}

\* Policy state after an accepted Authorize(upd).
SeenAfter(upd) == (seen \ Evicted) \cup {upd}

SeenOrderAfter(upd) ==
    Append(IF Cardinality(seen) >= maxSeenIDs THEN DropFirst(seenOrder, pruneCount) ELSE seenOrder, upd)

\* Authorize as a state change: returns through res.
PolicyStep(chat, upd, age) ==
    IF AuthorizeResult(chat, upd, age) = "ok"
    THEN /\ seen' = SeenAfter(upd)
         /\ seenOrder' = SeenOrderAfter(upd)
    ELSE UNCHANGED <<seen, seenOrder>>

\* A call of Policy.Authorize through the API.
Authorize(chat, upd, age) ==
    /\ PolicyStep(chat, upd, age)
    /\ polCall' = [chat |-> chat, upd |-> upd, age |-> age,
                   err |-> AuthorizeResult(chat, upd, age),
                   gone |-> IF AuthorizeResult(chat, upd, age) = "ok"
                            THEN polCall.gone \cup (seen \ seen')
                            ELSE polCall.gone]
    /\ stCall' = NoStCall
    /\ limCall' = NoLimCall
    /\ UNCHANGED <<edgeVars, now, items, nonceCtr, created, consumed, records, fails, dispVars, relVars, connVars>>

PolicyInit ==
    /\ seen = {}
    /\ seenOrder = <<>>
    /\ polCall = NoPolCall

(***************************************************************************)
(* Approval store (core/approval/store.go)                                 *)
(***************************************************************************)
expiry == 2
\* The capacity of the store, scaled down from 100 so that the model fills it.
maxPending == 2

\* The clock stops at MaxNow; generateNonce is called at most MaxNonces times.
MaxNow == 3
MaxNonces == 2
\* The calls of Create through the API that return a nonce: one more than the
\* store holds, so that a Create follows a full store.
MaxCreates == 3

\* The nonces, in the order generateNonce returns them.  A nonce is 8 bytes
\* of crypto/rand in hex: the model takes every returned nonce to be new.
NonceNames == <<"n1", "n2", "n3", "n4", "n5", "n6">>
Nonces == {<<NonceNames[i]>> : i \in 1..MaxNonces}
StoreNonces == {<<NonceNames[i]>> : i \in 1..MaxCreates}
generateNonce == <<NonceNames[nonceCtr + 1]>>

\* The (chat, op, args) the API-level store specification creates approvals
\* for; op names and argument strings are sequences of the text's atoms.
CreateInputs ==
    { <<100, <<"echo">>, <<"hello">>>>,
      <<100, <<"danger">>, <<>>>>,
      <<200, <<"danger">>, <<"hello">>>> }

Restrict(f, S) == [x \in S |-> f[x]]
Put(f, k, v) == [x \in DOMAIN f \cup {k} |-> IF x = k THEN v ELSE f[x]]

pruneLockedNever(its, t) == its

\* pruneLocked at time t: the items that stay.
pruneLocked(its, t) ==
    Restrict(its, {n \in DOMAIN its : ~(t - its[n].createdAt > expiry)})

CreateErrNoCapacity == "ok"

\* Create(chatID, opName, args): its error, and the store afterwards.
CreateErr ==
    IF Cardinality(DOMAIN pruneLocked(items, now)) >= maxPending THEN "too many pending approvals"
    ELSE "ok"

CreateItems(chat, op, args) ==
    IF CreateErr = "ok"
    THEN Put(pruneLocked(items, now), generateNonce,
             [chatID |-> chat, opName |-> op, args |-> args, createdAt |-> now])
    ELSE pruneLocked(items, now)

\* Create as a state change of the store and of its histories.
StoreCreate(chat, op, args) ==
    /\ items' = CreateItems(chat, op, args)
    /\ IF CreateErr = "ok"
       THEN /\ nonceCtr' = nonceCtr + 1
            /\ created' = Put(created, generateNonce, [chatID |-> chat, opName |-> op, args |-> args])
       ELSE UNCHANGED <<nonceCtr, created>>
    /\ UNCHANGED consumed

\* Consume(nonce, chatID): its error, what it returns, and the store afterwards.
ConsumeErr(nonce, chat) ==
    IF nonce \notin DOMAIN pruneLocked(items, now) THEN "unknown or expired approval nonce"
    ELSE IF items[nonce].chatID # chat THEN "approval nonce belongs to a different chat"
    ELSE "ok"

ConsumeKeepsNonce(nonce, chat) == pruneLocked(items, now)

ConsumeDropsOnWrongChat(nonce, chat) ==
    Restrict(pruneLocked(items, now), DOMAIN pruneLocked(items, now) \ {nonce})

ConsumeItems(nonce, chat) ==
    IF ConsumeErr(nonce, chat) = "ok"
    THEN Restrict(pruneLocked(items, now), DOMAIN pruneLocked(items, now) \ {nonce})
    ELSE pruneLocked(items, now)

ConsumeSwapsResult(nonce) == [opName |-> items[nonce].args, args |-> items[nonce].opName]

ConsumeResult(nonce) == [opName |-> items[nonce].opName, args |-> items[nonce].args]

StoreConsume(nonce, chat) ==
    /\ items' = ConsumeItems(nonce, chat)
    /\ consumed' = IF ConsumeErr(nonce, chat) = "ok" THEN consumed \cup {nonce} ELSE consumed
    /\ UNCHANGED <<nonceCtr, created>>

\* Calls of the store through its API.
Create(chat, op, args) ==
    /\ CreateErr = "ok" => nonceCtr < MaxCreates
    /\ StoreCreate(chat, op, args)
    /\ stCall' = [op |-> "Create", chat |-> chat, err |-> CreateErr,
                  nonce |-> IF CreateErr = "ok" THEN generateNonce ELSE <<>>,
                  ret |-> NoVal]
    /\ polCall' = NoPolCall
    /\ limCall' = NoLimCall
    /\ UNCHANGED <<edgeVars, now, seen, seenOrder, records, fails, dispVars, relVars, connVars>>

Consume(nonce, chat) ==
    /\ StoreConsume(nonce, chat)
    /\ stCall' = [op |-> "Consume", chat |-> chat, err |-> ConsumeErr(nonce, chat),
                  nonce |-> nonce,
                  ret |-> IF ConsumeErr(nonce, chat) = "ok" THEN ConsumeResult(nonce) ELSE NoVal]
    /\ polCall' = NoPolCall
    /\ limCall' = NoLimCall
    /\ UNCHANGED <<edgeVars, now, seen, seenOrder, records, fails, dispVars, relVars, connVars>>

\* A minute passes.
Tick ==
    /\ now < MaxNow
    /\ now' = now + 1
    /\ polCall' = NoPolCall
    /\ stCall' = NoStCall
    /\ limCall' = NoLimCall
    /\ UNCHANGED <<edgeVars, seen, seenOrder, items, nonceCtr, created, consumed, records, fails, dispVars, relVars, connVars>>

StoreInit ==
    /\ items = <<>>
    /\ nonceCtr = 0
    /\ created = <<>>
    /\ consumed = {}
    /\ stCall = NoStCall

(***************************************************************************)
(* Rate limiter (core/ratelimit/limiter.go)                                *)
(***************************************************************************)
maxFailures == 5
failureWindow == 15
lockoutDuration == 15

\* The zero time.Time of a record that is not locked.
ZeroTime == 0 - 1
IsZero(t) == t = ZeroTime

\* The rate limiter's specification lets the clock jump between the instants
\* around its two limits, and makes at most MaxFailCalls RecordFailure calls
\* between two clearings of records.
LimiterTimes ==
    {0, 1, failureWindow, failureWindow + 1, 2 * lockoutDuration, 2 * lockoutDuration + 1}
MaxFailCalls == 7

CheckErrAtLimit(recs, chat, t) ==
    /\ chat \in DOMAIN recs
    /\ ~IsZero(recs[chat].lockedAt)
    /\ t - recs[chat].lockedAt <= lockoutDuration

\* Check(chatID): whether it returns the lockout error, and the records after.
CheckErr(recs, chat, t) ==
    /\ chat \in DOMAIN recs
    /\ ~IsZero(recs[chat].lockedAt)
    /\ t - recs[chat].lockedAt < lockoutDuration

CheckRecords(recs, chat, t) ==
    IF chat \in DOMAIN recs /\ ~IsZero(recs[chat].lockedAt) /\ ~CheckErr(recs, chat, t)
    THEN Restrict(recs, DOMAIN recs \ {chat})
    ELSE recs

\* RecordFailure(chatID): the failures it keeps, and the records after.
FreshFailuresKeepsAll(recs, chat, t) ==
    IF chat \in DOMAIN recs THEN recs[chat].failures ELSE <<>>

FreshFailures(recs, chat, t) ==
    LET cutoff == t - failureWindow
        After(x) == x > cutoff
    IN  IF chat \in DOMAIN recs THEN SelectSeq(recs[chat].failures, After) ELSE <<>>

RecordFailureLocksAll(recs, chat, t) ==
    LET failures == Append(FreshFailures(recs, chat, t), t)
    IN  [c \in DOMAIN recs \cup {chat} |->
            [failures |-> IF c = chat THEN failures
                          ELSE recs[c].failures,
             lockedAt |-> IF Len(failures) >= maxFailures THEN t ELSE
                          IF c \in DOMAIN recs THEN recs[c].lockedAt ELSE ZeroTime]]

RecordFailureRecords(recs, chat, t) ==
    LET failures == Append(FreshFailures(recs, chat, t), t)
    IN  Put(recs, chat,
            [failures |-> failures,
             lockedAt |-> IF Len(failures) >= maxFailures THEN t
                          ELSE IF chat \in DOMAIN recs THEN recs[chat].lockedAt ELSE ZeroTime])

\* Reset(chatID): the records after.
ResetRecords(recs, chat) == Restrict(recs, DOMAIN recs \ {chat})

\* The history of a chat's failures since its record was last cleared.
FailsAfterCheck(chat) ==
    IF chat \in DOMAIN records /\ chat \notin DOMAIN CheckRecords(records, chat, now)
    THEN [fails EXCEPT ![chat] = <<>>] ELSE fails

FailCalls == Len(fails[100]) + Len(fails[200])

\* The instants at which a RecordFailure of the chat was the fifth or a later
\* one within failureWindow, counting the failures recorded since the chat's
\* record was last cleared (by Reset, or by a Check after a lockout ran out).
LockTimes(chat) ==
    {fails[chat][i] : i \in {k \in 1..Len(fails[chat]) :
        Cardinality({j \in 1..k : fails[chat][j] > fails[chat][k] - failureWindow}) >= maxFailures}}

\* The limiter's methods as state changes.
LimiterCheck(chat) ==
    /\ records' = CheckRecords(records, chat, now)
    /\ fails' = FailsAfterCheck(chat)

LimiterRecordFailure(chat) ==
    /\ records' = RecordFailureRecords(records, chat, now)
    /\ fails' = [fails EXCEPT ![chat] = Append(@, now)]

LimiterReset(chat) ==
    /\ records' = ResetRecords(records, chat)
    /\ fails' = [fails EXCEPT ![chat] = <<>>]

\* Calls of the limiter through its API.
Check(chat) ==
    /\ LimiterCheck(chat)
    /\ limCall' = [op |-> "Check", chat |-> chat, err |-> CheckErr(records, chat, now),
                   cleared |-> chat \in DOMAIN records /\ chat \notin DOMAIN CheckRecords(records, chat, now)]
    /\ polCall' = NoPolCall
    /\ stCall' = NoStCall
    /\ UNCHANGED <<edgeVars, now, seen, seenOrder, items, nonceCtr, created, consumed, dispVars, relVars, connVars>>

RecordFailure(chat) ==
    /\ FailCalls < MaxFailCalls
    /\ LimiterRecordFailure(chat)
    /\ limCall' = [op |-> "RecordFailure", chat |-> chat, err |-> FALSE, cleared |-> FALSE]
    /\ polCall' = NoPolCall
    /\ stCall' = NoStCall
    /\ UNCHANGED <<edgeVars, now, seen, seenOrder, items, nonceCtr, created, consumed, dispVars, relVars, connVars>>

Reset(chat) ==
    /\ LimiterReset(chat)
    /\ limCall' = [op |-> "Reset", chat |-> chat, err |-> FALSE, cleared |-> FALSE]
    /\ polCall' = NoPolCall
    /\ stCall' = NoStCall
    /\ UNCHANGED <<edgeVars, now, seen, seenOrder, items, nonceCtr, created, consumed, dispVars, relVars, connVars>>

\* The clock jumps to a later instant of LimiterTimes.
Jump ==
    /\ \E t \in LimiterTimes : t > now /\ now' = t
    /\ polCall' = NoPolCall
    /\ stCall' = NoStCall
    /\ limCall' = NoLimCall
    /\ UNCHANGED <<edgeVars, seen, seenOrder, items, nonceCtr, created, consumed, records, fails, dispVars, relVars, connVars>>

LimiterInit ==
    /\ records = <<>>
    /\ fails = [c \in allowed |-> <<>>]
    /\ limCall = NoLimCall

(***************************************************************************)
(* Message text (core/auth/totp.go: parseCommand, extractTOTP, isTOTPCode) *)
(*                                                                         *)
(* A string is a sequence of atoms: the space " ", the slash "/", the at   *)
(* sign "@", a decimal digit, or a run of letters (a word).                *)
(***************************************************************************)
Sp == " "
Digits == {"0", "1", "2", "3", "4", "5", "6", "7", "8", "9"}

\* strings.Index(s, a) and strings.LastIndex(s, a), counted from 1; 0 is Go's -1.
Index(s, a) ==
    IF \E i \in 1..Len(s) : s[i] = a
    THEN CHOOSE i \in 1..Len(s) : s[i] = a /\ \A j \in 1..(i - 1) : s[j] # a
    ELSE 0

LastIndex(s, a) ==
    IF \E i \in 1..Len(s) : s[i] = a
    THEN CHOOSE i \in 1..Len(s) : s[i] = a /\ \A j \in (i + 1)..Len(s) : s[j] # a
    ELSE 0

\* strings.TrimSpace
TrimSpace(s) ==
    IF \A i \in 1..Len(s) : s[i] = Sp THEN <<>>
    ELSE LET first == CHOOSE i \in 1..Len(s) : s[i] # Sp /\ \A j \in 1..(i - 1) : s[j] = Sp
             last == CHOOSE i \in 1..Len(s) : s[i] # Sp /\ \A j \in (i + 1)..Len(s) : s[j] = Sp
         IN  SubSeq(s, first, last)

\* strings.SplitN(s, " ", 2): the part before the first space, and the rest.
SplitHead(s) == IF Index(s, Sp) = 0 THEN s ELSE SubSeq(s, 1, Index(s, Sp) - 1)
SplitRest(s) == IF Index(s, Sp) = 0 THEN <<>> ELSE SubSeq(s, Index(s, Sp) + 1, Len(s))

\* strings.ToLower, on the words of the model.
LowerAtom(a) ==
    CASE a = "ECHO" -> "echo"
      [] a = "DANGER" -> "danger"
      [] a = "DO" -> "do"
      [] a = "APPROVE" -> "approve"
      [] OTHER -> a

ToLower(s) == [i \in 1..Len(s) |-> LowerAtom(s[i])]

\* parseCommand(text): the command name and the arguments.
parseCommand(text) ==
    LET t == TrimSpace(text)
    IN  IF t = <<>> \/ t[1] # "/" THEN [cmd |-> <<>>, args |-> <<>>]
        ELSE LET body == SubSeq(t, 2, Len(t))
                 head == SplitHead(body)
                 name == IF Index(head, "@") # 0 THEN SubSeq(head, 1, Index(head, "@") - 1) ELSE head
             IN  [cmd |-> ToLower(name), args |-> TrimSpace(SplitRest(body))]

isTOTPCode(s) ==
    /\ Len(s) = 6
    /\ \A i \in 1..Len(s) : s[i] \in Digits

\* extractTOTP(args): the arguments without the code, and the code.
extractTOTPKeepsCode(args) ==
    LET a == TrimSpace(args)
        lastSpace == LastIndex(a, Sp)
        candidate == SubSeq(a, lastSpace + 1, Len(a))
    IN  IF isTOTPCode(candidate) THEN [realArgs |-> a, code |-> candidate]
        ELSE [realArgs |-> a, code |-> <<>>]

extractTOTP(args) ==
    LET a == TrimSpace(args)
        lastSpace == LastIndex(a, Sp)
        candidate == SubSeq(a, lastSpace + 1, Len(a))
    IN  IF a = <<>> THEN [realArgs |-> <<>>, code |-> <<>>]
        ELSE IF lastSpace = 0
             THEN IF isTOTPCode(a) THEN [realArgs |-> <<>>, code |-> a]
                  ELSE [realArgs |-> a, code |-> <<>>]
             ELSE IF isTOTPCode(candidate)
                  THEN [realArgs |-> TrimSpace(SubSeq(a, 1, lastSpace - 1)), code |-> candidate]
                  ELSE [realArgs |-> a, code |-> <<>>]

\* TOTPVerifier.Verify: the verifier accepts the code 123456.
GoodCode == <<"1", "2", "3", "4", "5", "6">>
BadCode == <<"6", "5", "4", "3", "2", "1">>
Verify(code) == code = GoodCode

(***************************************************************************)
(* Op registry and risk (core/ops)                                         *)
(***************************************************************************)
RiskNone == 0
RiskLow == 1
RiskHigh == 2
\* The risk field of an op that does not implement RiskClassifier.
NoRisk == 0 - 1

RiskOfIgnoresHigh(op) == IF op.risk = NoRisk \/ op.risk = RiskHigh THEN RiskLow ELSE op.risk

RiskOf(op) == IF op.risk = NoRisk THEN RiskLow ELSE op.risk

\* The registry of the model: help declares RiskNone, echo declares nothing,
\* danger declares RiskHigh.
\* An op also carries what it is: kind "static" for a built-in, "shell" for a
\* ShellOp (src = the file it was loaded from, idx = its place in the file),
\* "conn" for a ConnectorOp (src = the config its Router was built for).
StaticOps ==
    ( <<"help">> :> [risk |-> RiskNone, kind |-> "static", src |-> 0, idx |-> 0] @@
      <<"echo">> :> [risk |-> NoRisk, kind |-> "static", src |-> 0, idx |-> 0] @@
      <<"danger">> :> [risk |-> RiskHigh, kind |-> "static", src |-> 0, idx |-> 0] )

\* Registry.Get(name) # nil
Registered(name) == name \in DOMAIN registry

\* Registry.Register(op) on the map reg: the error when the name is taken.
RegisterErr(reg, name) == name \in DOMAIN reg

RegisterOps(reg, name, op) ==
    IF RegisterErr(reg, name) THEN reg ELSE reg @@ (name :> op)

\* Registry.Unregister(name): idempotent.
Unregister(reg, name) == [n \in DOMAIN reg \ {name} |-> reg[n]]

(***************************************************************************)
(* Dispatcher (core/auth/totp.go, package core)                            *)
(***************************************************************************)
maxConcurrentOps == 2

\* The goroutines that call Handle.
Procs == {"h1", "h2", "h3"}

\* The security components WithSecurity attaches.
Full == [totp |-> TRUE, limiter |-> TRUE, approvals |-> TRUE]
NoLimiter == [totp |-> TRUE, limiter |-> FALSE, approvals |-> TRUE]
TotpOnly == [totp |-> TRUE, limiter |-> FALSE, approvals |-> FALSE]
NoSecurity == [totp |-> FALSE, limiter |-> FALSE, approvals |-> FALSE]

\* What op.Execute returned to a Handle call, if it has.
NoRet == [returned |-> FALSE, err |-> FALSE, out |-> <<>>]

\* A goroutine that is not in Handle.  reply is the format of the text it
\* responded with, sent the text Notifier.Send was given, nsent the number
\* of its Send calls, delivered whether Send returned without an error.
Idle ==
    [pc |-> "idle", chat |-> 0, text |-> <<>>, path |-> NoVal, op |-> <<>>, args |-> <<>>,
     risk |-> NoRisk, nonce |-> <<>>, reply |-> NoVal, ran |-> FALSE, held |-> FALSE,
     acts |-> {}, expect |-> FALSE, sent |-> <<>>, nsent |-> 0, ret |-> NoRet,
     delivered |-> TRUE]

\* The longest text respond sends, scaled down from 4096 bytes, and the three
\* bytes of the ellipsis it puts before a shortened text.
maxMessageLen == 6
Ellipsis == <<"e2", "80", "a6">>

\* respond(chatID, text): the text handed to Notifier.Send.  A text is a
\* sequence of bytes; a fixed phrase counts as one.
respond(text) ==
    IF Len(text) > maxMessageLen
    THEN Ellipsis \o SubSeq(text, Len(text) - maxMessageLen + Len(Ellipsis) + 1, Len(text))
    ELSE text

\* Handle responds with text, whose format string is form, and returns.
FinishWith(rec, form, text) ==
    [rec EXCEPT !.pc = "done", !.reply = form, !.sent = respond(text), !.nsent = @ + 1]

\* respond(chatID, text) for a fixed phrase, after which Handle returns.
Finish(rec, text) == FinishWith(rec, text, <<text>>)

Min(a, b) == IF a < b THEN a ELSE b

\* d.recordFailure and d.resetFailures: no-ops without a limiter.
recordFailure(chat) ==
    IF security.limiter THEN LimiterRecordFailure(chat) ELSE UNCHANGED <<records, fails>>

resetFailures(chat) ==
    IF security.limiter THEN LimiterReset(chat) ELSE UNCHANGED <<records, fails>>

\* The history of the chat's messages: tail counts the latest arrivals that
\* failed the TOTP check one after the other, with no other message of the
\* chat arriving or passing the check in between; latest is the goroutine
\* of the newest arrival while its outcome is open.
TailFail(h) ==
    IF latest[hs[h].chat] = h
    THEN /\ tail' = [tail EXCEPT ![hs[h].chat] = Min(@ + 1, maxFailures)]
         /\ latest' = [latest EXCEPT ![hs[h].chat] = NoVal]
    ELSE UNCHANGED <<tail, latest>>

TailPass(h) ==
    IF latest[hs[h].chat] = h
    THEN /\ tail' = [tail EXCEPT ![hs[h].chat] = 0]
         /\ latest' = [latest EXCEPT ![hs[h].chat] = NoVal]
    ELSE /\ tail' = [tail EXCEPT ![hs[h].chat] = IF @ < maxFailures THEN 0 ELSE @]
         /\ UNCHANGED latest

\* The TOTP check of a message: extractTOTP on argsIn, Verify, and the
\* limiter's account of the outcome.  next is Handle's state when it passes.
TotpGateNoVerify(h, argsIn, missing, next) ==
    LET ex == extractTOTP(argsIn)
    IN  IF ex.code = <<>>
        THEN /\ recordFailure(hs[h].chat)
             /\ TailFail(h)
             /\ hs' = [hs EXCEPT ![h] = Finish(@, missing)]
        ELSE /\ resetFailures(hs[h].chat)
             /\ TailPass(h)
             /\ hs' = [hs EXCEPT ![h] = [next EXCEPT !.args = ex.realArgs,
                                                   !.acts = @ \cup {"Verify"}]]

TotpGateMissingFree(h, argsIn, missing, next) ==
    LET ex == extractTOTP(argsIn)
    IN  IF ex.code = <<>>
        THEN /\ UNCHANGED <<records, fails>>
             /\ TailFail(h)
             /\ hs' = [hs EXCEPT ![h] = Finish(@, missing)]
        ELSE IF ~Verify(ex.code)
        THEN /\ recordFailure(hs[h].chat)
             /\ TailFail(h)
             /\ hs' = [hs EXCEPT ![h] = Finish([@ EXCEPT !.acts = @ \cup {"Verify"}],
                                               "Invalid TOTP code.")]
        ELSE /\ resetFailures(hs[h].chat)
             /\ TailPass(h)
             /\ hs' = [hs EXCEPT ![h] = [next EXCEPT !.args = ex.realArgs,
                                                   !.acts = @ \cup {"Verify"}]]

TotpGate(h, argsIn, missing, next) ==
    LET ex == extractTOTP(argsIn)
    IN  IF ex.code = <<>>
        THEN /\ recordFailure(hs[h].chat)
             /\ TailFail(h)
             /\ hs' = [hs EXCEPT ![h] = Finish(@, missing)]
        ELSE IF ~Verify(ex.code)
        THEN /\ recordFailure(hs[h].chat)
             /\ TailFail(h)
             /\ hs' = [hs EXCEPT ![h] = Finish([@ EXCEPT !.acts = @ \cup {"Verify"}],
                                               "Invalid TOTP code.")]
        ELSE /\ resetFailures(hs[h].chat)
             /\ TailPass(h)
             /\ hs' = [hs EXCEPT ![h] = [next EXCEPT !.args = ex.realArgs,
                                                   !.acts = @ \cup {"Verify"}]]

\* Handle(msg), first statement: Policy.Authorize.
Receive(h, chat, upd, age, text) ==
    /\ hs[h].pc = "idle"
    /\ PolicyStep(chat, upd, age)
    /\ IF AuthorizeResult(chat, upd, age) = "ok"
       THEN /\ hs' = [hs EXCEPT ![h] = [Idle EXCEPT !.pc = "check", !.chat = chat, !.text = text,
                                             !.expect = /\ security.limiter
                                                        /\ latest[chat] = NoVal
                                                        /\ tail[chat] >= maxFailures]]
            /\ IF security.limiter
               THEN /\ tail' = [tail EXCEPT ![chat] = IF latest[chat] = NoVal THEN @ ELSE 0]
                    /\ latest' = [latest EXCEPT ![chat] = h]
               ELSE UNCHANGED <<tail, latest>>
       ELSE /\ hs' = [hs EXCEPT ![h] = [Idle EXCEPT !.pc = "done", !.chat = chat, !.text = text]]
            /\ UNCHANGED <<tail, latest>>
    /\ UNCHANGED <<edgeVars, now, polCall, stVars, limVars, registry, relVars, connVars, security, sem>>

\* The lockout check, then parseCommand and the choice of the path.
CheckStep(h) ==
    /\ hs[h].pc = "check"
    /\ LET c == hs[h].chat
           p == parseCommand(hs[h].text)
           rec == hs[h]
       IN  IF security.limiter /\ CheckErr(records, c, now)
           THEN /\ LimiterCheck(c)
                /\ hs' = [hs EXCEPT ![h] = Finish(rec, "Locked out: %s")]
           ELSE /\ IF security.limiter THEN LimiterCheck(c) ELSE UNCHANGED <<records, fails>>
                /\ hs' = [hs EXCEPT ![h] =
                      IF p.cmd = <<>> THEN [rec EXCEPT !.pc = "done"]
                      ELSE IF p.cmd = <<"do">> /\ security.approvals /\ security.totp
                      THEN IF SplitHead(p.args) = <<>>
                           THEN Finish([rec EXCEPT !.path = "do"], "Usage: /do <command> [args] <totp>")
                           ELSE [rec EXCEPT !.pc = "do_totp", !.path = "do", !.op = SplitHead(p.args)]
                      ELSE IF p.cmd = <<"approve">> /\ security.approvals /\ security.totp
                      THEN [rec EXCEPT !.pc = "ap_totp", !.path = "approve"]
                      ELSE [rec EXCEPT !.pc = "lookup", !.path = "direct", !.op = p.cmd, !.args = p.args]]
    /\ UNCHANGED <<edgeVars, now, polVars, stVars, limCall, registry, relVars, connVars, security, sem, tail, latest>>

LookupStepGateAlways(h) ==
    /\ hs[h].pc = "lookup"
    /\ hs' = [hs EXCEPT ![h] =
          LET rec == [@ EXCEPT !.acts = @ \cup {"Get"}]
          IN  IF ~Registered(hs[h].op)
              THEN Finish(rec, "Unknown command: /%s\nSend /help for available commands.")
              ELSE LET risk == RiskOf(registry[hs[h].op])
                       r2 == [rec EXCEPT !.risk = risk]
                   IN  IF risk = RiskLow THEN [r2 EXCEPT !.pc = "totp"]
                       ELSE IF risk = RiskHigh
                       THEN Finish(r2, "/%s is a high-risk operation. Use /do %s <args> <totp> for two-step approval.")
                       ELSE [r2 EXCEPT !.pc = "acquire"]]
    /\ UNCHANGED <<edgeVars, now, polVars, stVars, limVars, registry, relVars, connVars, security, sem, tail, latest>>

\* d.ops.Get(cmd) and the risk branch, up to the TOTP check of a Low op.
LookupStep(h) ==
    /\ hs[h].pc = "lookup"
    /\ hs' = [hs EXCEPT ![h] =
          LET rec == [@ EXCEPT !.acts = @ \cup {"Get"}]
          IN  IF ~Registered(hs[h].op)
              THEN Finish(rec, "Unknown command: /%s\nSend /help for available commands.")
              ELSE LET risk == RiskOf(registry[hs[h].op])
                       r2 == [rec EXCEPT !.risk = risk]
                   IN  IF risk = RiskLow /\ security.totp THEN [r2 EXCEPT !.pc = "totp"]
                       ELSE IF risk = RiskHigh /\ security.totp
                       THEN Finish(r2, "/%s is a high-risk operation. Use /do %s <args> <totp> for two-step approval.")
                       ELSE [r2 EXCEPT !.pc = "acquire"]]
    /\ UNCHANGED <<edgeVars, now, polVars, stVars, limVars, registry, relVars, connVars, security, sem, tail, latest>>

\* The TOTP check of a Low-risk op on the direct path.
TotpStep(h) ==
    /\ hs[h].pc = "totp"
    /\ TotpGate(h, hs[h].args, "/%s requires a TOTP code as the last argument.",
                [hs[h] EXCEPT !.pc = "acquire"])
    /\ UNCHANGED <<edgeVars, now, polVars, stVars, limCall, registry, relVars, connVars, security, sem>>

\* The non-blocking acquire of an execution slot, then op.Execute begins.
AcquireNoLimit(h) ==
    /\ hs[h].pc = "acquire"
    /\ sem' = sem + 1
    /\ hs' = [hs EXCEPT ![h] = [@ EXCEPT !.pc = "exec", !.ran = TRUE, !.held = TRUE,
                                        !.acts = @ \cup {"Execute"}]]
    /\ UNCHANGED <<edgeVars, now, polVars, stVars, limVars, registry, relVars, connVars, security, tail, latest>>

AcquireBusyAtOne(h) ==
    /\ hs[h].pc = "acquire"
    /\ IF sem < maxConcurrentOps - 1
       THEN /\ sem' = sem + 1
            /\ hs' = [hs EXCEPT ![h] = [@ EXCEPT !.pc = "exec", !.ran = TRUE, !.held = TRUE,
                                                !.acts = @ \cup {"Execute"}]]
       ELSE /\ sem' = sem
            /\ hs' = [hs EXCEPT ![h] = Finish(@, "Busy - too many operations running. Try again shortly.")]
    /\ UNCHANGED <<edgeVars, now, polVars, stVars, limVars, registry, relVars, connVars, security, tail, latest>>

AcquireBusyRestoresNonce(h) ==
    /\ hs[h].pc = "acquire"
    /\ IF sem < maxConcurrentOps
       THEN /\ sem' = sem + 1
            /\ hs' = [hs EXCEPT ![h] = [@ EXCEPT !.pc = "exec", !.ran = TRUE, !.held = TRUE,
                                                !.acts = @ \cup {"Execute"}]]
            /\ UNCHANGED items
       ELSE /\ sem' = sem
            /\ hs' = [hs EXCEPT ![h] = Finish(@, "Busy - too many operations running. Try again shortly.")]
            /\ items' = IF hs[h].path = "approve"
                        THEN Put(items, hs[h].nonce,
                                 [chatID |-> hs[h].chat, opName |-> hs[h].op,
                                  args |-> hs[h].args, createdAt |-> now])
                        ELSE items
    /\ UNCHANGED <<edgeVars, now, polVars, nonceCtr, created, consumed, stCall, limVars, registry,
                   relVars, connVars, security, tail, latest>>

AcquireStep(h) ==
    /\ hs[h].pc = "acquire"
    /\ IF sem < maxConcurrentOps
       THEN /\ sem' = sem + 1
            /\ hs' = [hs EXCEPT ![h] = [@ EXCEPT !.pc = "exec", !.ran = TRUE, !.held = TRUE,
                                                !.acts = @ \cup {"Execute"}]]
       ELSE /\ sem' = sem
            /\ hs' = [hs EXCEPT ![h] = Finish(@, "Busy - too many operations running. Try again shortly.")]
    /\ UNCHANGED <<edgeVars, now, polVars, stVars, limVars, registry, relVars, connVars, security, tail, latest>>

\* What op.Execute returns: a result or an error, each a short text or one
\* of maxMessageLen bytes.
ShortOut == <<"out">>
LongOut == [i \in 1..maxMessageLen |-> i]
Outs == {ShortOut, LongOut}

\* fmt.Sprintf("Error running /%s: %s", cmd, err)
ErrorText(cmd, err) == <<"Error running /">> \o cmd \o <<": ">> \o err

\* op.Execute returns out, as its error if err, and Handle responds.
ExecuteReturnsSilentError(h, err, out) ==
    /\ hs[h].pc = "exec"
    /\ hs' = [hs EXCEPT ![h] =
          LET rec == [@ EXCEPT !.ret = [returned |-> TRUE, err |-> err, out |-> out]]
          IN  IF err THEN [rec EXCEPT !.pc = "done"]
              ELSE FinishWith(rec, "result", out)]
    /\ UNCHANGED <<edgeVars, now, polVars, stVars, limVars, registry, relVars, connVars, security, sem, tail, latest>>

ExecuteReturns(h, err, out) ==
    /\ hs[h].pc = "exec"
    /\ hs' = [hs EXCEPT ![h] =
          LET rec == [@ EXCEPT !.ret = [returned |-> TRUE, err |-> err, out |-> out]]
          IN  IF err THEN FinishWith(rec, "Error running /%s: %s", ErrorText(hs[h].op, out))
              ELSE FinishWith(rec, "result", out)]
    /\ UNCHANGED <<edgeVars, now, polVars, stVars, limVars, registry, relVars, connVars, security, sem, tail, latest>>

\* op.Execute returns a short text, and Handle responds.
FinishExecute(h, err) == ExecuteReturns(h, err, ShortOut)

\* The ways op.Execute ends: with a result, with an error of its own, or with
\* the error of its 30-second context.
Outcomes == {"ok", "error", "timeout"}
DeadlineOut == <<"context deadline exceeded">>

\* op.Execute ends, Handle responds, and Notifier.Send delivers the reply or
\* returns an error, which respond only logs.
ExecuteEnds(h, outcome, delivered) ==
    /\ hs[h].pc = "exec"
    /\ hs' = [hs EXCEPT ![h] =
          LET out == IF outcome = "timeout" THEN DeadlineOut ELSE ShortOut
              rec == [@ EXCEPT !.ret = [returned |-> TRUE, err |-> outcome # "ok", out |-> out],
                               !.delivered = delivered]
          IN  IF outcome # "ok"
              THEN FinishWith(rec, "Error running /%s: %s", ErrorText(hs[h].op, out))
              ELSE FinishWith(rec, "result", out)]
    /\ UNCHANGED <<edgeVars, now, polVars, stVars, limVars, registry, relVars, connVars, security, sem, tail, latest>>

\* handleDo: the TOTP check, the lookup of the op, and Create.
DoTotp(h) ==
    /\ hs[h].pc = "do_totp"
    /\ TotpGate(h, SplitRest(parseCommand(hs[h].text).args),
                "/do requires a TOTP code as the last argument.",
                [hs[h] EXCEPT !.pc = "do_lookup"])
    /\ UNCHANGED <<edgeVars, now, polVars, stVars, limCall, registry, relVars, connVars, security, sem>>

DoLookup(h) ==
    /\ hs[h].pc = "do_lookup"
    /\ hs' = [hs EXCEPT ![h] =
          IF ~Registered(hs[h].op)
          THEN Finish([@ EXCEPT !.acts = @ \cup {"Get"}], "Unknown command: /%s")
          ELSE [@ EXCEPT !.pc = "do_create", !.acts = @ \cup {"Get"}]]
    /\ UNCHANGED <<edgeVars, now, polVars, stVars, limVars, registry, relVars, connVars, security, sem, tail, latest>>

DoCreate(h) ==
    /\ hs[h].pc = "do_create"
    /\ CreateErr = "ok" => nonceCtr < MaxNonces
    /\ StoreCreate(hs[h].chat, hs[h].op, hs[h].args)
    /\ hs' = [hs EXCEPT ![h] =
          IF CreateErr = "ok"
          THEN Finish([@ EXCEPT !.nonce = generateNonce, !.acts = @ \cup {"Create"}],
                      "Pending approval for /%s. Send:\n/approve %s <totp>")
          ELSE Finish([@ EXCEPT !.acts = @ \cup {"Create"}], "Failed to create approval: %s")]
    /\ UNCHANGED <<edgeVars, now, polVars, stCall, limVars, registry, relVars, connVars, security, sem, tail, latest>>

\* handleApprove: the TOTP check, Consume, and the lookup of the stored op.
ApTotpConsumesFirst(h) ==
    /\ hs[h].pc = "ap_totp"
    /\ StoreConsume(TrimSpace(extractTOTP(parseCommand(hs[h].text).args).realArgs), hs[h].chat)
    /\ TotpGate(h, parseCommand(hs[h].text).args, "Usage: /approve <nonce> <totp>",
                [hs[h] EXCEPT !.pc = "ap_consume"])
    /\ UNCHANGED <<edgeVars, now, polVars, stCall, limCall, registry, relVars, connVars, security, sem>>

ApTotp(h) ==
    /\ hs[h].pc = "ap_totp"
    /\ TotpGate(h, parseCommand(hs[h].text).args, "Usage: /approve <nonce> <totp>",
                [hs[h] EXCEPT !.pc = "ap_consume"])
    /\ UNCHANGED <<edgeVars, now, polVars, stVars, limCall, registry, relVars, connVars, security, sem>>

ApConsume(h) ==
    /\ hs[h].pc = "ap_consume"
    /\ LET nonce == TrimSpace(hs[h].args)
       IN  /\ StoreConsume(nonce, hs[h].chat)
           /\ hs' = [hs EXCEPT ![h] =
                 IF ConsumeErr(nonce, hs[h].chat) = "ok"
                 THEN [@ EXCEPT !.pc = "ap_lookup", !.nonce = nonce,
                                !.op = ConsumeResult(nonce).opName,
                                !.args = ConsumeResult(nonce).args,
                                !.acts = @ \cup {"Consume"}]
                 ELSE Finish([@ EXCEPT !.acts = @ \cup {"Consume"}], "Approval failed: %s")]
    /\ UNCHANGED <<edgeVars, now, polVars, stCall, limVars, registry, relVars, connVars, security, sem, tail, latest>>

ApLookupIgnoresMissing(h) ==
    /\ hs[h].pc = "ap_lookup"
    /\ hs' = [hs EXCEPT ![h] =
          [@ EXCEPT !.pc = "acquire",
                    !.risk = IF Registered(hs[h].op) THEN RiskOf(registry[hs[h].op]) ELSE NoRisk,
                    !.acts = @ \cup {"Get"}]]
    /\ UNCHANGED <<edgeVars, now, polVars, stVars, limVars, registry, relVars, connVars, security, sem, tail, latest>>

ApLookup(h) ==
    /\ hs[h].pc = "ap_lookup"
    /\ hs' = [hs EXCEPT ![h] =
          IF ~Registered(hs[h].op)
          THEN Finish([@ EXCEPT !.acts = @ \cup {"Get"}], "Operation /%s no longer registered.")
          ELSE [@ EXCEPT !.pc = "acquire", !.risk = RiskOf(registry[hs[h].op]), !.acts = @ \cup {"Get"}]]
    /\ UNCHANGED <<edgeVars, now, polVars, stVars, limVars, registry, relVars, connVars, security, sem, tail, latest>>

\* Handle returns: the deferred release of the slot it holds.
ReturnKeepsSlotOnError(h) ==
    /\ hs[h].pc = "done"
    /\ sem' = IF hs[h].held /\ ~hs[h].ret.err THEN sem - 1 ELSE sem
    /\ hs' = [hs EXCEPT ![h] = Idle]
    /\ IF hs[h].chat \in DOMAIN latest /\ latest[hs[h].chat] = h
       THEN /\ tail' = [tail EXCEPT ![hs[h].chat] = 0]
            /\ latest' = [latest EXCEPT ![hs[h].chat] = NoVal]
       ELSE UNCHANGED <<tail, latest>>
    /\ UNCHANGED <<edgeVars, now, polVars, stVars, limVars, registry, relVars, connVars, security>>

Return(h) ==
    /\ hs[h].pc = "done"
    /\ sem' = IF hs[h].held THEN sem - 1 ELSE sem
    /\ hs' = [hs EXCEPT ![h] = Idle]
    /\ IF hs[h].chat \in DOMAIN latest /\ latest[hs[h].chat] = h
       THEN /\ tail' = [tail EXCEPT ![hs[h].chat] = 0]
            /\ latest' = [latest EXCEPT ![hs[h].chat] = NoVal]
       ELSE UNCHANGED <<tail, latest>>
    /\ UNCHANGED <<edgeVars, now, polVars, stVars, limVars, registry, relVars, connVars, security>>

\* One step of Handle on the direct path, after Authorize.
DirectStep(h) ==
    \/ CheckStep(h)
    \/ LookupStep(h)
    \/ TotpStep(h)
    \/ AcquireStep(h)
    \/ \E err \in BOOLEAN : FinishExecute(h, err)
    \/ Return(h)

\* One step of handleDo or of handleApprove.
ApprovalStep(h) ==
    \/ DoTotp(h)
    \/ DoLookup(h)
    \/ DoCreate(h)
    \/ ApTotp(h)
    \/ ApConsume(h)
    \/ ApLookup(h)

DispatcherInit ==
    /\ registry = StaticOps
    /\ sem = 0
    /\ hs = [h \in Procs |-> Idle]
    /\ tail = [c \in Chats |-> 0]
    /\ latest = [c \in Chats |-> NoVal]

\* The message texts of the model.
Cmd(name) == <<"/", name>>

DirectTexts ==
    { Cmd("help"),
      <<"hello">>,
      Cmd("nope"),
      Cmd("echo") \o <<Sp, "hello">>,
      Cmd("echo") \o <<Sp, "hello", Sp>> \o GoodCode,
      Cmd("echo") \o <<Sp, "hello", Sp>> \o BadCode,
      <<"/", "ECHO", "@", "bot", Sp, Sp>> \o GoodCode,
      Cmd("danger") \o <<Sp, "hello", Sp>> \o GoodCode }

ApprovalTexts ==
    { Cmd("danger") \o <<Sp, "hello", Sp>> \o GoodCode,
      Cmd("echo") \o <<Sp, "hello", Sp>> \o GoodCode,
      Cmd("do"),
      Cmd("do") \o <<Sp, "danger", Sp, "hello", Sp>> \o GoodCode,
      Cmd("do") \o <<Sp, "echo", Sp>> \o GoodCode,
      Cmd("do") \o <<Sp, "danger", Sp, "hello">>,
      Cmd("do") \o <<Sp, "danger", Sp>> \o BadCode,
      Cmd("do") \o <<Sp, "nope", Sp>> \o GoodCode }
    \cup { Cmd("approve") \o <<Sp>> \o n \o <<Sp>> \o GoodCode : n \in Nonces }
    \cup { Cmd("approve") \o <<Sp>> \o n \o <<Sp>> \o BadCode : n \in Nonces }
    \cup { Cmd("approve") \o <<Sp>> \o n : n \in Nonces }

ConcTexts ==
    { Cmd("help"),
      Cmd("echo") \o <<Sp, "hello", Sp>> \o GoodCode,
      Cmd("do") \o <<Sp, "danger", Sp>> \o GoodCode,
      Cmd("approve") \o <<Sp, "n1", Sp>> \o GoodCode }

LockoutTexts ==
    { Cmd("help"),
      Cmd("echo") \o <<Sp, "hello">>,
      Cmd("echo") \o <<Sp, "hello", Sp>> \o GoodCode }

(***************************************************************************)
(* Hot reload (package core: Reloader; core/ops: LoadCommands;             *)
(* core/connector: LoadConfig)                                             *)
(*                                                                         *)
(* A reload holds Reloader.mu from start to end; each Registry method it   *)
(* calls is one atomic step, so registry readers interleave between them.  *)
(***************************************************************************)
\* The command files of the model.  A file is missing, is not JSON
\* ("garbage"), or holds a JSON list of commands; hasCmd says that the
\* command field is not empty.
ShellCmd(name, hasCmd) == [name |-> name, hasCmd |-> hasCmd]

CmdFileIDs == 1..9

CmdFile(f) ==
    CASE f = 1 -> [state |-> "missing", cmds |-> <<>>]
      [] f = 2 -> [state |-> "garbage", cmds |-> <<>>]
      [] f = 3 -> [state |-> "list", cmds |-> <<ShellCmd(<<"cmda">>, TRUE), ShellCmd(<<"cmdb">>, TRUE)>>]
      [] f = 4 -> [state |-> "list", cmds |-> <<ShellCmd(<<"cmda">>, TRUE), ShellCmd(<<"cmdc">>, TRUE)>>]
      [] f = 5 -> [state |-> "list", cmds |-> <<ShellCmd(<<"help">>, TRUE), ShellCmd(<<"cmda">>, TRUE)>>]
      [] f = 6 -> [state |-> "list", cmds |-> <<ShellCmd(<<"cmda">>, TRUE), ShellCmd(<<"cmdb">>, FALSE)>>]
      [] f = 7 -> [state |-> "list", cmds |-> <<ShellCmd(<<"cmda">>, TRUE), ShellCmd(<<"cmda">>, TRUE)>>]
      [] f = 8 -> [state |-> "list", cmds |-> <<ShellCmd(<<"s", ".", "t">>, TRUE)>>]
      [] f = 9 -> [state |-> "list", cmds |-> <<ShellCmd(<<>>, TRUE)>>]

\* LoadCommands(path) for the file f at path: (cmds, err).
LoadCommands(f) ==
    LET file == CmdFile(f)
    IN  IF file.state = "missing" THEN [err |-> FALSE, cmds |-> <<>>]
        ELSE IF file.state = "garbage" THEN [err |-> TRUE, cmds |-> <<>>]
        ELSE IF \E i \in 1..Len(file.cmds) : file.cmds[i].name = <<>> \/ ~file.cmds[i].hasCmd
             THEN [err |-> TRUE, cmds |-> <<>>]
        ELSE [err |-> FALSE, cmds |-> file.cmds]

\* The ShellOp LoadCommands builds for entry i of file f; ShellOp has no Risk method.
ShellOpOf(f, i) == [risk |-> NoRisk, kind |-> "shell", src |-> f, idx |-> i]

\* The connector configs of the model: connector -> its allowlist; hasExec
\* says that the exec path is not empty.
ConnCfg(hasExec, tools) == [hasExec |-> hasExec, tools |-> tools]

CfgIDs == 1..7

CfgFile(g) ==
    CASE g = 1 -> [state |-> "missing", connectors |-> <<>>]
      [] g = 2 -> [state |-> "garbage", connectors |-> <<>>]
      [] g = 3 -> [state |-> "json", connectors |-> <<>>]
      [] g = 4 -> [state |-> "json", connectors |-> (<<"s">> :> ConnCfg(TRUE, << <<"t">> >>))]
      [] g = 5 -> [state |-> "json", connectors |-> (<<"s">> :> ConnCfg(TRUE, << <<"t">>, <<"u">> >>))]
      [] g = 6 -> [state |-> "json", connectors |-> (<<"r">> :> ConnCfg(TRUE, << <<"t">>, <<"t">> >>))]
      [] g = 7 -> [state |-> "json", connectors |-> (<<"s">> :> ConnCfg(TRUE, << <<"t">>, <<"__", "x">> >>))]

IntrospectToolName == <<"__", "introspect">>

\* validateConfig(cfg) = nil
validateConfig(connectors) ==
    \A name \in DOMAIN connectors :
        /\ name # <<>>
        /\ "." \notin Range(name)
        /\ connectors[name].hasExec
        /\ Len(connectors[name].tools) > 0
        /\ \A k \in 1..Len(connectors[name].tools) :
              LET t == connectors[name].tools[k]
              IN  /\ t # <<>>
                  /\ ~(t[1] = "__" /\ t # IntrospectToolName)

\* LoadConfig(path) for the file g at path: (cfg, err); cfg = nil is state "nil".
LoadConfig(g) ==
    LET file == CfgFile(g)
    IN  IF file.state = "missing" THEN [err |-> FALSE, nil |-> TRUE, connectors |-> <<>>]
        ELSE IF file.state = "garbage" THEN [err |-> TRUE, nil |-> TRUE, connectors |-> <<>>]
        ELSE IF ~validateConfig(file.connectors) THEN [err |-> TRUE, nil |-> TRUE, connectors |-> <<>>]
        ELSE [err |-> FALSE, nil |-> FALSE, connectors |-> file.connectors]

\* connName + "." + tool
Qualified(connName, tool) == connName \o <<".">> \o tool

\* ConnectorOp declares RiskLow.
ConnectorOpOf(g) == [risk |-> RiskLow, kind |-> "conn", src |-> g, idx |-> 0]

\* A connector child as startConnector leaves it: pipes empty, lock free.
\* stdin: the requests written and not yet answered by the child; stdout: the
\* lines the child has written and the Scanner has not yet returned; scan: the
\* requests whose reading goroutine is inside proc.stdout.Scan().
\* History: open, the requests written whose Call has not returned with a
\* line read for it.
NewProc == [mu |-> NoVal, stdin |-> <<>>, stdout |-> <<>>, scan |-> {}, open |-> {},
            scanErr |-> FALSE]

\* Manager.Start on a manager for the connectors of a config, all started.
Started(connectors) == [c \in DOMAIN connectors |-> NewProc]

\* Manager.Shutdown: every child killed, procs emptied.
Shutdown == <<>>

NoReload == [pc |-> "idle", last |-> "new", shellOpNames |-> <<>>, connOpNames |-> <<>>,
             connMgr |-> 0, file |-> 0, i |-> 1, cmds |-> <<>>, names |-> <<>>, todo |-> {}]

ReloaderInit ==
    /\ reloader = NoReload
    /\ told = {}

\* The daemon's startup as the tests write it: load the command file, register
\* each command ignoring the error, and have the Reloader track every name.
RECURSIVE RegisterAll(_, _, _, _)
RegisterAll(reg, f, cmds, i) ==
    IF i > Len(cmds) THEN reg
    ELSE RegisterAll(RegisterOps(reg, cmds[i].name, ShellOpOf(f, i)), f, cmds, i + 1)

NamesOf(cmds) == [i \in 1..Len(cmds) |-> cmds[i].name]

\* TrackShellOps(names)
TrackShellOps(names) ==
    /\ reloader.pc = "idle"
    /\ reloader' = [reloader EXCEPT !.shellOpNames = names, !.last = "startup"]
    /\ told' = told \cup Range(names)

StartupLoad(f) ==
    /\ reloader.last = "new"
    /\ registry' = RegisterAll(registry, f, LoadCommands(f).cmds, 1)
    /\ TrackShellOps(NamesOf(LoadCommands(f).cmds))
    /\ UNCHANGED <<edgeVars, now, polVars, stVars, limVars, security, sem, hs, tail, latest, connVars>>

\* ReloadCommands(path): r.mu.Lock()
RcBegin ==
    /\ reloader.pc = "idle"
    /\ reloader' = [reloader EXCEPT !.pc = "rc_unreg", !.last = "commands", !.i = 1,
                                    !.file = 0, !.cmds = <<>>, !.names = <<>>]
    /\ UNCHANGED <<edgeVars, now, polVars, stVars, limVars, dispVars, told, connVars>>

\* for _, name := range r.shellOpNames { r.registry.Unregister(name) }
RcUnregisterKeepsOld ==
    /\ reloader.pc = "rc_unreg"
    /\ reloader.i <= Len(reloader.shellOpNames)
    /\ reloader' = [reloader EXCEPT !.i = @ + 1]
    /\ UNCHANGED <<edgeVars, now, polVars, stVars, limVars, dispVars, told, connVars>>

RcUnregister ==
    /\ reloader.pc = "rc_unreg"
    /\ reloader.i <= Len(reloader.shellOpNames)
    /\ registry' = Unregister(registry, reloader.shellOpNames[reloader.i])
    /\ reloader' = [reloader EXCEPT !.i = @ + 1]
    /\ UNCHANGED <<edgeVars, now, polVars, stVars, limVars, security, sem, hs, tail, latest, told, connVars>>

RcLoadIgnoresError(f) ==
    /\ reloader.pc = "rc_unreg"
    /\ reloader.i > Len(reloader.shellOpNames)
    /\ reloader' = [reloader EXCEPT !.shellOpNames = <<>>, !.file = f, !.i = 1,
                                    !.cmds = CmdFile(f).cmds, !.pc = "rc_reg"]
    /\ UNCHANGED <<edgeVars, now, polVars, stVars, limVars, dispVars, told, connVars>>

\* r.shellOpNames = nil; cmds, err := ops.LoadCommands(path); if err != nil { return }
RcLoad(f) ==
    /\ reloader.pc = "rc_unreg"
    /\ reloader.i > Len(reloader.shellOpNames)
    /\ LET l == LoadCommands(f)
       IN  reloader' = [reloader EXCEPT !.shellOpNames = <<>>, !.file = f, !.i = 1,
                                        !.cmds = l.cmds,
                                        !.pc = IF l.err THEN "idle" ELSE "rc_reg"]
    /\ UNCHANGED <<edgeVars, now, polVars, stVars, limVars, dispVars, told, connVars>>

\* One turn of the loop over cmds: Register, and track the name unless it failed.
RcRegisterTracksAll ==
    /\ reloader.pc = "rc_reg"
    /\ reloader.i <= Len(reloader.cmds)
    /\ LET name == reloader.cmds[reloader.i].name
       IN  /\ registry' = RegisterOps(registry, name, ShellOpOf(reloader.file, reloader.i))
           /\ reloader' = [reloader EXCEPT !.i = @ + 1, !.names = Append(@, name)]
    /\ UNCHANGED <<edgeVars, now, polVars, stVars, limVars, security, sem, hs, tail, latest, told, connVars>>

RcRegister ==
    /\ reloader.pc = "rc_reg"
    /\ reloader.i <= Len(reloader.cmds)
    /\ LET name == reloader.cmds[reloader.i].name
       IN  /\ registry' = RegisterOps(registry, name, ShellOpOf(reloader.file, reloader.i))
           /\ reloader' = [reloader EXCEPT !.i = @ + 1,
                              !.names = IF RegisterErr(registry, name) THEN @ ELSE Append(@, name)]
    /\ UNCHANGED <<edgeVars, now, polVars, stVars, limVars, security, sem, hs, tail, latest, told, connVars>>

\* r.shellOpNames = names; return
RcReturn ==
    /\ reloader.pc = "rc_reg"
    /\ reloader.i > Len(reloader.cmds)
    /\ reloader' = [reloader EXCEPT !.shellOpNames = reloader.names, !.pc = "idle"]
    /\ UNCHANGED <<edgeVars, now, polVars, stVars, limVars, dispVars, told, connVars>>

\* ReloadConnectors(path): r.mu.Lock()
RnBegin ==
    /\ reloader.pc = "idle"
    /\ reloader' = [reloader EXCEPT !.pc = "rn_unreg", !.last = "connectors", !.i = 1,
                                    !.file = 0, !.cmds = <<>>, !.names = <<>>, !.todo = {}]
    /\ UNCHANGED <<edgeVars, now, polVars, stVars, limVars, dispVars, told, connVars>>

\* for _, name := range r.connOpNames { r.registry.Unregister(name) }
RnUnregister ==
    /\ reloader.pc = "rn_unreg"
    /\ reloader.i <= Len(reloader.connOpNames)
    /\ registry' = Unregister(registry, reloader.connOpNames[reloader.i])
    /\ reloader' = [reloader EXCEPT !.i = @ + 1]
    /\ UNCHANGED <<edgeVars, now, polVars, stVars, limVars, security, sem, hs, tail, latest, told, connVars>>

\* r.connOpNames = nil; if r.connMgr != nil { r.connMgr.Shutdown() }
RnStopLeavesRunning ==
    /\ reloader.pc = "rn_unreg"
    /\ reloader.i > Len(reloader.connOpNames)
    /\ reloader' = [reloader EXCEPT !.connOpNames = <<>>, !.pc = "rn_load"]
    /\ UNCHANGED <<edgeVars, now, polVars, stVars, limVars, dispVars, told, connVars>>

RnStop ==
    /\ reloader.pc = "rn_unreg"
    /\ reloader.i > Len(reloader.connOpNames)
    /\ reloader' = [reloader EXCEPT !.connOpNames = <<>>, !.pc = "rn_load"]
    /\ procs' = IF reloader.connMgr # 0 THEN Shutdown ELSE procs
    /\ UNCHANGED <<edgeVars, now, polVars, stVars, limVars, dispVars, told, calls, reqCtr>>

\* LoadConfig; an error returns; a nil or empty config clears r.connMgr and
\* returns; otherwise Start the new manager, which shuts itself down and
\* returns when a child cannot be started (started = FALSE).
RnLoad(g, started) ==
    /\ reloader.pc = "rn_load"
    /\ LET l == LoadConfig(g)
           empty == l.nil \/ DOMAIN l.connectors = {}
       IN  IF l.err
           THEN /\ reloader' = [reloader EXCEPT !.pc = "idle", !.file = g]
                /\ UNCHANGED procs
           ELSE IF empty
           THEN /\ reloader' = [reloader EXCEPT !.pc = "idle", !.file = g, !.connMgr = 0]
                /\ UNCHANGED procs
           ELSE IF ~started
           THEN /\ reloader' = [reloader EXCEPT !.pc = "idle", !.file = g]
                /\ procs' = Shutdown
           ELSE /\ reloader' = [reloader EXCEPT !.pc = "rn_reg", !.file = g, !.connMgr = g,
                                  !.todo = UNION {{<<c, k>> : k \in 1..Len(l.connectors[c].tools)} :
                                                       c \in DOMAIN l.connectors}]
                /\ procs' = Started(l.connectors)
    /\ UNCHANGED <<edgeVars, now, polVars, stVars, limVars, dispVars, told, calls, reqCtr>>

\* One turn of the loops over cfg.Connectors (a map: any order) and cc.Tools.
RnRegister ==
    /\ reloader.pc = "rn_reg"
    /\ \E ck \in reloader.todo :
          LET tools == LoadConfig(reloader.file).connectors[ck[1]].tools
              first == \A k \in 1..(ck[2] - 1) : <<ck[1], k>> \notin reloader.todo
              name == Qualified(ck[1], tools[ck[2]])
          IN  /\ first
              /\ registry' = RegisterOps(registry, name, ConnectorOpOf(reloader.file))
              /\ reloader' = [reloader EXCEPT !.todo = @ \ {ck},
                                 !.names = IF RegisterErr(registry, name) THEN @ ELSE Append(@, name)]
    /\ UNCHANGED <<edgeVars, now, polVars, stVars, limVars, security, sem, hs, tail, latest, told, connVars>>

\* r.connOpNames = names; return
RnReturn ==
    /\ reloader.pc = "rn_reg"
    /\ reloader.todo = {}
    /\ reloader' = [reloader EXCEPT !.connOpNames = reloader.names, !.pc = "idle"]
    /\ UNCHANGED <<edgeVars, now, polVars, stVars, limVars, dispVars, told, connVars>>

(***************************************************************************)
(* Connector manager and router (core/connector)                           *)
(***************************************************************************)
\* The goroutines that call Router.Call.
Callers == {"c1", "c2"}

\* Request ids ("req_" + 8 hex digits of a fresh UUID, taken never to repeat)
\* are numbered in the order the Router generates them.
MaxReqs == 3
ReqIDs == 1..MaxReqs

\* The config the Router and the Manager of the model were built for.
RouterCfg == CfgFile(4).connectors

\* The qualified names the model's callers ask for.
QualifiedNames ==
    { <<"s", ".", "t">>,
      <<"s", ".", "u">>,
      <<"s", ".", "__", "introspect">>,
      <<"x", ".", "t">>,
      <<"st">>,
      <<".", "t">>,
      <<"s", ".">>,
      <<"s", ".", "t", ".", "u">> }

\* strings.IndexByte(qualified, '.'): 0 when there is none
IndexDot(q) == Index(q, ".")

\* splitTool(qualified): (connector, tool, err)
splitTool(q) ==
    LET idx == IndexDot(q)
        connector == SubSeq(q, 1, idx - 1)
        tool == SubSeq(q, idx + 1, Len(q))
    IN  IF idx = 0 THEN [err |-> "must be connector.tool", connector |-> <<>>, tool |-> <<>>]
        ELSE IF connector = <<>> THEN [err |-> "empty connector prefix", connector |-> <<>>, tool |-> <<>>]
        ELSE IF tool = <<>> THEN [err |-> "empty tool name", connector |-> <<>>, tool |-> <<>>]
        ELSE [err |-> NoVal, connector |-> connector, tool |-> tool]

\* cc.ToolAllowed(tool)
ToolAllowedAny(cc, tool) == TRUE

ToolAllowed(cc, tool) ==
    \/ tool = IntrospectToolName
    \/ \E k \in 1..Len(cc.tools) : cc.tools[k] = tool

\* The lines a child writes.  A line is JSON or not; a JSON line carries a
\* protocol version, an id (0: the empty string), ok and whether it has an
\* error object.
ProtocolVersion == "v1"
Line(json, version, id, ok, hasError) ==
    [json |-> json, version |-> version, id |-> id, ok |-> ok, hasError |-> hasError, size |-> 1]
\* The line with n bytes before its newline.
Sized(line, n) == [line EXCEPT !.size = n]
\* limits.resp_max_bytes, scaled down from the default of 16384, and the line
\* lengths around it.
RespMaxBytes == 3
Sizes == {RespMaxBytes - 1, RespMaxBytes, RespMaxBytes + 1}
GoodLine(id) == Line(TRUE, ProtocolVersion, id, TRUE, FALSE)
\* No line: the channel is empty, the call returns no response.
NoLine == Line(FALSE, NoVal, 0, FALSE, FALSE)
LineKinds == {"good", "garbage", "version", "noid", "noerror"}
LineOf(kind, id) ==
    CASE kind = "good" -> GoodLine(id)
      [] kind = "garbage" -> Line(FALSE, "", 0, FALSE, FALSE)
      [] kind = "version" -> Line(TRUE, "v0", id, TRUE, FALSE)
      [] kind = "noid" -> Line(TRUE, ProtocolVersion, 0, TRUE, FALSE)
      [] kind = "noerror" -> Line(TRUE, ProtocolVersion, id, FALSE, FALSE)

\* A call that has not started; err and resp are what the call returns, line
\* what its reading goroutine has put on the channel.
NoCall == [pc |-> "idle", q |-> <<>>, conn |-> <<>>, tool |-> <<>>, id |-> 0,
           err |-> NoVal, resp |-> NoLine, line |-> NoLine, got |-> NoLine,
           fwd |-> FALSE, wrote |-> FALSE, late |-> FALSE, scanErr |-> FALSE]

ManagerInit ==
    /\ procs = <<>>
    /\ calls = [c \in Callers |-> NoCall]
    /\ reqCtr = 0

\* ValidateResponse(resp) = nil
ValidateResponse(resp) ==
    /\ resp.version = ProtocolVersion
    /\ resp.id # 0
    /\ resp.ok \/ resp.hasError

\* Router.Call(ctx, qualifiedTool, args) up to its call of manager.Call: the
\* name is split and checked against the config, and a request id generated.
RouterCall(c, q) ==
    /\ calls[c].pc = "idle"
    /\ reqCtr < MaxReqs
    /\ LET sp == splitTool(q)
           err == IF sp.err # NoVal THEN sp.err
                  ELSE IF sp.connector \notin DOMAIN RouterCfg THEN "unknown connector"
                  ELSE IF ~ToolAllowed(RouterCfg[sp.connector], sp.tool) THEN "not allowed"
                  ELSE NoVal
       IN  IF err # NoVal
           THEN /\ calls' = [calls EXCEPT ![c] = [NoCall EXCEPT !.pc = "done", !.q = q, !.err = err]]
                /\ UNCHANGED reqCtr
           ELSE /\ calls' = [calls EXCEPT ![c] = [NoCall EXCEPT !.pc = "mgr", !.q = q, !.fwd = TRUE,
                                                      !.conn = sp.connector, !.tool = sp.tool,
                                                      !.id = reqCtr + 1]]
                /\ reqCtr' = reqCtr + 1
    /\ UNCHANGED <<edgeVars, now, polVars, stVars, limVars, dispVars, relVars, procs>>

\* Manager.Call: proc, ok := m.procs[connectorName]
MgrLookup(c) ==
    /\ calls[c].pc = "mgr"
    /\ calls' = [calls EXCEPT ![c] =
          IF calls[c].conn \in DOMAIN procs THEN [@ EXCEPT !.pc = "lock"]
          ELSE [@ EXCEPT !.pc = "done", !.err = "not running"]]
    /\ UNCHANGED <<edgeVars, now, polVars, stVars, limVars, dispVars, relVars, procs, reqCtr>>

\* proc.mu.Lock()
MgrLock(c) ==
    /\ calls[c].pc = "lock"
    /\ procs[calls[c].conn].mu = NoVal
    /\ procs' = [procs EXCEPT ![calls[c].conn].mu = c]
    /\ calls' = [calls EXCEPT ![c].pc = "write"]
    /\ UNCHANGED <<edgeVars, now, polVars, stVars, limVars, dispVars, relVars, reqCtr>>

\* proc.stdin.Write(reqData), then the goroutine that calls proc.stdout.Scan()
\* is started.  late: the call writes while an earlier request is unanswered.
MgrWrite(c) ==
    /\ calls[c].pc = "write"
    /\ LET k == calls[c].conn
       IN  /\ procs' = [procs EXCEPT ![k].stdin = Append(@, calls[c].id),
                                     ![k].scan = @ \cup {calls[c].id},
                                     ![k].open = @ \cup {calls[c].id}]
           /\ calls' = [calls EXCEPT ![c].pc = "wait", ![c].wrote = TRUE,
                                     ![c].late = procs[k].open # {}]
    /\ UNCHANGED <<edgeVars, now, polVars, stVars, limVars, dispVars, relVars, reqCtr>>

\* The child answers the oldest request on its stdin with a line of its
\* choice, n bytes long.
ChildAnswerSized(k, kind, n) ==
    /\ k \in DOMAIN procs
    /\ procs[k].stdin # <<>>
    /\ procs' = [procs EXCEPT ![k].stdin = Tail(@),
                              ![k].stdout = Append(@, Sized(LineOf(kind, Head(procs[k].stdin)), n))]
    /\ UNCHANGED <<edgeVars, now, polVars, stVars, limVars, dispVars, relVars, calls, reqCtr>>

\* The child answers with a short line.
ChildAnswer(k, kind) == ChildAnswerSized(k, kind, 1)

\* bufio.Scanner with Buffer(make([]byte, RespMaxBytes), RespMaxBytes): Scan
\* finds a line only when the line and its newline lie in the buffer
\* together, and fails with ErrTooLong when the buffer is full without one.
TokenFitsUpToMax(line) == line.size <= RespMaxBytes

TokenFits(line) == line.size + 1 <= RespMaxBytes

\* proc.stdout.Scan() returns in the goroutine started for request g, which
\* puts the line on its channel.  The goroutine of a call that timed out is
\* still inside Scan; when several goroutines are inside Scan at once (a data
\* race on the Scanner) any of them may be the one that gets the line.
\* torn: the racing goroutines left the Scanner's buffer in a state in
\* which the token returned is not the line the child wrote.
\* A line that does not fit makes Scan return false with the Scanner's error
\* set; the call's line then records the line the Scanner gave up on.
ScanLine(k, g, torn) ==
    /\ k \in DOMAIN procs
    /\ g \in procs[k].scan
    /\ procs[k].stdout # <<>>
    /\ ~procs[k].scanErr
    /\ torn => Cardinality(procs[k].scan) > 1
    /\ LET fits == TokenFits(Head(procs[k].stdout))
       IN  /\ procs' = [procs EXCEPT ![k].stdout = Tail(@), ![k].scan = @ \ {g},
                                     ![k].scanErr = ~fits]
           /\ calls' = [c \in Callers |->
                 IF calls[c].id = g /\ calls[c].pc = "wait"
                 THEN [calls[c] EXCEPT !.line = IF torn THEN LineOf("garbage", 0)
                                                         ELSE Head(procs[k].stdout),
                                       !.scanErr = ~fits]
                 ELSE calls[c]]
    /\ UNCHANGED <<edgeVars, now, polVars, stVars, limVars, dispVars, relVars, reqCtr>>

\* proc.stdout.Scan() on a Scanner whose error is set returns false at once.
ScanFails(k, g) ==
    /\ k \in DOMAIN procs
    /\ g \in procs[k].scan
    /\ procs[k].scanErr
    /\ procs' = [procs EXCEPT ![k].scan = @ \ {g}]
    /\ calls' = [c \in Callers |->
          IF calls[c].id = g /\ calls[c].pc = "wait"
          THEN [calls[c] EXCEPT !.scanErr = TRUE]
          ELSE calls[c]]
    /\ UNCHANGED <<edgeVars, now, polVars, stVars, limVars, dispVars, relVars, reqCtr>>

\* case <-ctx.Done(): the call returns the timeout error and unlocks.
MgrTimeout(c) ==
    /\ calls[c].pc = "wait"
    /\ calls' = [calls EXCEPT ![c].pc = "done", ![c].err = "timed out"]
    /\ procs' = [procs EXCEPT ![calls[c].conn].mu = NoVal]
    /\ UNCHANGED <<edgeVars, now, polVars, stVars, limVars, dispVars, relVars, reqCtr>>

\* The outcome of the checks on a line read for the request id.
ReceiveErrNoIDCheck(line, id) ==
    IF line.size > RespMaxBytes THEN "exceeds byte limit"
    ELSE IF ~line.json THEN "invalid response"
    ELSE IF ~ValidateResponse(line) THEN "invalid response"
    ELSE NoVal

ReceiveErr(line, id) ==
    IF line.size > RespMaxBytes THEN "exceeds byte limit"
    ELSE IF ~line.json THEN "invalid response"
    ELSE IF ~ValidateResponse(line) THEN "invalid response"
    ELSE IF line.id # id THEN "response id mismatch"
    ELSE NoVal

\* case result := <-ch: the line is parsed, validated and matched with the
\* request; the call returns and unlocks.
MgrReceive(c) ==
    /\ calls[c].pc = "wait"
    /\ calls[c].line # NoLine \/ calls[c].scanErr
    /\ LET err == IF calls[c].scanErr THEN "read from connector"
                  ELSE ReceiveErr(calls[c].line, calls[c].id)
       IN  calls' = [calls EXCEPT ![c].pc = "done", ![c].got = calls[c].line, ![c].err = err,
                                  ![c].resp = IF err = NoVal THEN calls[c].line ELSE NoLine]
    /\ procs' = [procs EXCEPT ![calls[c].conn].mu = NoVal,
                              ![calls[c].conn].open = @ \ {calls[c].id}]
    /\ UNCHANGED <<edgeVars, now, polVars, stVars, limVars, dispVars, relVars, reqCtr>>

\* The caller has its result and may call again.
CallReturn(c) ==
    /\ calls[c].pc = "done"
    /\ calls' = [calls EXCEPT ![c] = NoCall]
    /\ UNCHANGED <<edgeVars, now, polVars, stVars, limVars, dispVars, relVars, procs, reqCtr>>

\* Manager.StopConnector(name), between calls to the connector.
StopConnector(k) ==
    /\ k \in DOMAIN procs
    /\ \A c \in Callers : calls[c].conn = k => calls[c].pc \in {"mgr", "done"}
    /\ procs' = [n \in DOMAIN procs \ {k} |-> procs[n]]
    /\ UNCHANGED <<edgeVars, now, polVars, stVars, limVars, dispVars, relVars, calls, reqCtr>>

CallStep(c) ==
    \/ MgrLookup(c)
    \/ MgrLock(c)
    \/ MgrWrite(c)
    \/ MgrTimeout(c)
    \/ MgrReceive(c)
    \/ CallReturn(c)

(***************************************************************************)
(* Specifications                                                          *)
(***************************************************************************)
\* The daemon as main wires it: verifier, limiter and approvals attached.
InitFull ==
    /\ now = 0
    /\ PolicyInit
    /\ StoreInit
    /\ LimiterInit
    /\ DispatcherInit
    /\ ReloaderInit
    /\ EdgeInit
    /\ ManagerInit
    /\ security = Full

\* The tasks: commands create and complete tasks while the scheduler ticks
\* any number of times a day and the daemon is restarted at any point.
NextTasks ==
    \/ \E outcome \in SaveOutcomes : CreateTomorrow(outcome)
    \/ \E i \in TaskIDs, outcome \in SaveOutcomes : Complete(i, outcome)
    \/ \E outcome \in SaveOutcomes : TickPrepare(outcome)
    \/ TickSend
    \/ Restart
    \/ NextDay

SpecTasks == InitFull /\ [][NextTasks]_vars

\* The receiver's loop against a server that gets messages at any moment.
NextReceiver ==
    \/ \E kind \in UpdateKinds, gap \in {0, 1} : Arrive(kind, gap)
    \/ \E n \in 0..MaxUpdates : Poll(n)
    \/ Skip
    \/ CallHandler
    \/ HandlerReturns

SpecReceiver == InitFull /\ [][NextReceiver]_vars

\* The watcher's polls against files that are written and deleted at any moment.
NextWatcher ==
    \/ \E path \in Paths, t \in Mtimes : WriteFile(path, t)
    \/ \E path \in Paths : DeleteFile(path)
    \/ \E path \in Paths : Watch(path)
    \/ PollBegin
    \/ PollEntry

SpecWatcher == InitFull /\ [][NextWatcher]_vars

\* The verifier, called at every second with the code of any second.
NextTotp ==
    \/ TotpTick
    \/ \E t \in Seconds, cut \in BOOLEAN : VerifyCall(t, cut)

SpecTotp == InitFull /\ [][NextTotp]_vars

\* The Policy, the approval Store and the Limiter, each called through its
\* API in any order.
NextPolicy ==
    \E chat \in Chats, upd \in UpdateIDs, age \in Ages : Authorize(chat, upd, age)

SpecPolicy == InitFull /\ [][NextPolicy]_vars

NextStore ==
    \/ \E in \in CreateInputs : Create(in[1], in[2], in[3])
    \/ \E nonce \in StoreNonces, chat \in allowed : Consume(nonce, chat)
    \/ Tick

SpecStore == InitFull /\ [][NextStore]_vars

NextLimiter ==
    \/ \E chat \in allowed : Check(chat)
    \/ \E chat \in allowed : RecordFailure(chat)
    \/ \E chat \in allowed : Reset(chat)
    \/ Jump

SpecLimiter == InitFull /\ [][NextLimiter]_vars

\* The direct command path: one goroutine handles one message after another,
\* under each security setting.
Init ==
    /\ now = 0
    /\ PolicyInit
    /\ StoreInit
    /\ LimiterInit
    /\ DispatcherInit
    /\ ReloaderInit
    /\ EdgeInit
    /\ ManagerInit
    /\ security \in {Full, TotpOnly, NoSecurity}

Next ==
    \/ \E chat \in Chats, upd \in UpdateIDs, age \in Ages, text \in DirectTexts :
          Receive("h1", chat, upd, age, text)
    \/ DirectStep("h1")

Spec == Init /\ [][Next]_vars

\* Telegram numbers its updates upwards: the next update carries the least
\* id of the model that the dedup set does not hold.
NextUpdateID == CHOOSE u \in UpdateIDs \ seen : \A v \in UpdateIDs \ seen : u <= v

\* The two-step approval of /do and /approve: one goroutine, every path of
\* Handle, with and without approvals and limiter.  Chat 100 sends every
\* text, chat 200 answers with /approve.
ApprovalInputs ==
    ({100} \X ApprovalTexts)
    \cup ({200} \X { Cmd("approve") \o <<Sp>> \o n \o <<Sp>> \o GoodCode : n \in Nonces })

InitApproval ==
    /\ now = 0
    /\ PolicyInit
    /\ StoreInit
    /\ LimiterInit
    /\ DispatcherInit
    /\ ReloaderInit
    /\ EdgeInit
    /\ ManagerInit
    /\ security \in {Full, NoLimiter, TotpOnly}

NextApproval ==
    \/ \E in \in ApprovalInputs : Receive("h1", in[1], NextUpdateID, 0, in[2])
    \/ DirectStep("h1")
    \/ ApprovalStep("h1")

SpecApproval == InitApproval /\ [][NextApproval]_vars

\* Three goroutines in Handle at once, for the messages of one chat, with a
\* verifier and approvals attached and no limiter (its calls touch no slot).
InitConc ==
    /\ now = 0
    /\ PolicyInit
    /\ StoreInit
    /\ LimiterInit
    /\ DispatcherInit
    /\ ReloaderInit
    /\ EdgeInit
    /\ ManagerInit
    /\ security = NoLimiter

NextConc ==
    \/ \E h \in Procs, text \in ConcTexts : Receive(h, 100, NextUpdateID, 0, text)
    \/ \E h \in Procs : DirectStep(h)
    \/ \E h \in Procs : ApprovalStep(h)

SpecConc == InitConc /\ [][NextConc]_vars

\* The replies of Handle: one goroutine on the direct and the /approve path,
\* with ops that return short and long results and errors.
RespondTexts ==
    { Cmd("help"),
      Cmd("echo") \o <<Sp, "hello", Sp>> \o GoodCode,
      Cmd("do") \o <<Sp, "danger", Sp, "hello", Sp>> \o GoodCode }
    \cup { Cmd("approve") \o <<Sp>> \o n \o <<Sp>> \o GoodCode : n \in Nonces }

NextRespond ==
    \/ \E text \in RespondTexts : Receive("h1", 100, NextUpdateID, 0, text)
    \/ CheckStep("h1")
    \/ LookupStep("h1")
    \/ TotpStep("h1")
    \/ AcquireStep("h1")
    \/ \E err \in BOOLEAN, out \in Outs : ExecuteReturns("h1", err, out)
    \/ Return("h1")
    \/ ApprovalStep("h1")

SpecRespond == InitApproval /\ [][NextRespond]_vars

\* A dispatcher that WithSecurity was never called on: one goroutine, every
\* kind of command, and a registry that may hold an op named do.
PlainTexts ==
    { Cmd("help"),
      <<"hello">>,
      Cmd("nope"),
      Cmd("echo") \o <<Sp, "hello">>,
      Cmd("echo") \o <<Sp, "hello", Sp>> \o BadCode,
      Cmd("danger") \o <<Sp, "hello">>,
      Cmd("do") \o <<Sp, "danger", Sp, "hello", Sp>> \o GoodCode,
      Cmd("approve") \o <<Sp, "n1", Sp>> \o GoodCode }

OpNamedDo == <<"do">> :> [risk |-> RiskHigh, kind |-> "static", src |-> 0, idx |-> 0]

InitPlain ==
    /\ now = 0
    /\ PolicyInit
    /\ StoreInit
    /\ LimiterInit
    /\ registry \in {StaticOps, StaticOps @@ OpNamedDo}
    /\ sem = 0
    /\ hs = [h \in Procs |-> Idle]
    /\ tail = [c \in Chats |-> 0]
    /\ latest = [c \in Chats |-> NoVal]
    /\ ReloaderInit
    /\ EdgeInit
    /\ ManagerInit
    /\ security = NoSecurity

NextPlain ==
    \/ \E text \in PlainTexts : Receive("h1", 100, NextUpdateID, 0, text)
    \/ CheckStep("h1")
    \/ LookupStep("h1")
    \/ AcquireStep("h1")
    \/ \E err \in BOOLEAN, out \in Outs : ExecuteReturns("h1", err, out)
    \/ Return("h1")

SpecPlain == InitPlain /\ [][NextPlain]_vars

\* Two goroutines in Handle at once, with messages that fail the TOTP check.
LockoutProcs == {"h1", "h2"}

NextLockout ==
    \/ \E h \in LockoutProcs, text \in LockoutTexts : Receive(h, 100, NextUpdateID, 0, text)
    \/ \E h \in LockoutProcs : DirectStep(h)

SpecLockout == InitFull /\ [][NextLockout]_vars

\* The Reloader from startup on: the startup load, then reloads of the
\* command file and of the connector config, whatever the files hold.
NextReload ==
    \/ \E f \in CmdFileIDs : StartupLoad(f)
    \/ RcBegin
    \/ RcUnregister
    \/ \E f \in CmdFileIDs : RcLoad(f)
    \/ RcRegister
    \/ RcReturn
    \/ RnBegin
    \/ RnUnregister
    \/ RnStop
    \/ \E g \in CfgIDs, started \in BOOLEAN : RnLoad(g, started)
    \/ RnRegister
    \/ RnReturn

SpecReload == InitFull /\ [][NextReload]_vars

\* Every kind of message from one chat, one after the other, with verifier,
\* limiter and approvals attached.
NextAccount ==
    \/ \E text \in DirectTexts \cup ApprovalTexts : Receive("h1", 100, NextUpdateID, 0, text)
    \/ DirectStep("h1")
    \/ ApprovalStep("h1")

SpecAccount == InitFull /\ [][NextAccount]_vars

\* Approvals for a command of the command file, while the file is reloaded
\* with and without the command.
VanishFiles == {1, 3}

VanishTexts ==
    { Cmd("do") \o <<Sp, "cmda", Sp, "hello", Sp>> \o GoodCode,
      Cmd("cmda") \o <<Sp, "hello", Sp>> \o GoodCode }
    \cup { Cmd("approve") \o <<Sp>> \o n \o <<Sp>> \o GoodCode : n \in Nonces }

NextVanish ==
    \/ StartupLoad(3)
    \/ reloader.last # "new" /\ RcBegin
    \/ RcUnregister
    \/ \E f \in VanishFiles : RcLoad(f)
    \/ RcRegister
    \/ RcReturn
    \/ \E text \in VanishTexts : Receive("h1", 100, NextUpdateID, 0, text)
    \/ DirectStep("h1")
    \/ ApprovalStep("h1")

SpecVanish == InitFull /\ [][NextVanish]_vars

\* Two goroutines in Handle at once, with ops that succeed, fail and time
\* out and replies that are delivered or not.
NextSlots ==
    \/ \E h \in LockoutProcs, text \in ConcTexts : Receive(h, 100, NextUpdateID, 0, text)
    \/ \E h \in LockoutProcs : CheckStep(h)
    \/ \E h \in LockoutProcs : LookupStep(h)
    \/ \E h \in LockoutProcs : TotpStep(h)
    \/ \E h \in LockoutProcs : AcquireStep(h)
    \/ \E h \in LockoutProcs, outcome \in Outcomes, delivered \in BOOLEAN :
          ExecuteEnds(h, outcome, delivered)
    \/ \E h \in LockoutProcs : Return(h)
    \/ \E h \in LockoutProcs : ApprovalStep(h)

SpecSlots == InitConc /\ [][NextSlots]_vars

\* Commands typed in capitals and in small letters, directly and in /do.
CaseTexts ==
    { Cmd("echo") \o <<Sp, "hello", Sp>> \o GoodCode,
      Cmd("ECHO") \o <<Sp, "hello", Sp>> \o GoodCode,
      Cmd("DANGER") \o <<Sp, "hello">>,
      Cmd("do") \o <<Sp, "danger", Sp, "hello", Sp>> \o GoodCode,
      Cmd("do") \o <<Sp, "DANGER", Sp, "hello", Sp>> \o GoodCode,
      Cmd("DO") \o <<Sp, "ECHO", Sp, "hello", Sp>> \o GoodCode }
    \cup { Cmd("APPROVE") \o <<Sp>> \o n \o <<Sp>> \o GoodCode : n \in Nonces }

NextCase ==
    \/ \E text \in CaseTexts : Receive("h1", 100, NextUpdateID, 0, text)
    \/ DirectStep("h1")
    \/ ApprovalStep("h1")

SpecCase == InitFull /\ [][NextCase]_vars

\* Reloads of the command file while the dispatcher handles messages, both
\* after the startup load: the file at startup and the file of every reload
\* define cmda.
ReloadFiles == {3, 4}

ReloadReadTexts ==
    { Cmd("cmda") \o <<Sp>> \o GoodCode,
      Cmd("cmdb") \o <<Sp>> \o GoodCode }

NextReloadRead ==
    \/ \E f \in ReloadFiles : StartupLoad(f)
    \/ reloader.last # "new" /\ RcBegin
    \/ RcUnregister
    \/ \E f \in ReloadFiles : RcLoad(f)
    \/ RcRegister
    \/ RcReturn
    \/ \E text \in ReloadReadTexts :
          reloader.last # "new" /\ Receive("h1", 100, NextUpdateID, 0, text)
    \/ DirectStep("h1")

SpecReloadRead == InitFull /\ [][NextReloadRead]_vars

\* A started Manager and its Router, called from two goroutines.  In
\* SpecRouter the callers ask for any name, a connector may be stopped and
\* the child answers well or with a failure that carries no error; in
\* SpecManager the child may also write lines that do not decode, that name
\* another protocol version or that carry no id; in SpecTimeout it answers
\* every request correctly, early or late.
InitManager ==
    /\ now = 0
    /\ PolicyInit
    /\ StoreInit
    /\ LimiterInit
    /\ DispatcherInit
    /\ ReloaderInit
    /\ EdgeInit
    /\ security = Full
    /\ procs = Started(RouterCfg)
    /\ calls = [c \in Callers |-> NoCall]
    /\ reqCtr = 0

NextRouter ==
    \/ \E c \in Callers, q \in QualifiedNames : RouterCall(c, q)
    \/ \E c \in Callers : CallStep(c)
    \/ \E k \in DOMAIN RouterCfg, kind \in {"good", "noerror"} : ChildAnswer(k, kind)
    \/ \E k \in DOMAIN RouterCfg, g \in ReqIDs, torn \in BOOLEAN : ScanLine(k, g, torn)
    \/ \E k \in DOMAIN RouterCfg : StopConnector(k)

SpecRouter == InitManager /\ [][NextRouter]_vars

NextManager ==
    \/ \E c \in Callers : RouterCall(c, <<"s", ".", "t">>)
    \/ \E c \in Callers : CallStep(c)
    \/ \E k \in DOMAIN RouterCfg, kind \in LineKinds \ {"noerror"} : ChildAnswer(k, kind)
    \/ \E k \in DOMAIN RouterCfg, g \in ReqIDs, torn \in BOOLEAN : ScanLine(k, g, torn)

SpecManager == InitManager /\ [][NextManager]_vars

\* The same with a child that answers correctly in lines of every length
\* around the limit.
NextLimit ==
    \/ \E c \in Callers : RouterCall(c, <<"s", ".", "t">>)
    \/ \E c \in Callers : CallStep(c)
    \/ \E k \in DOMAIN RouterCfg, n \in Sizes : ChildAnswerSized(k, "good", n)
    \/ \E k \in DOMAIN RouterCfg, g \in ReqIDs, torn \in BOOLEAN : ScanLine(k, g, torn)
    \/ \E k \in DOMAIN RouterCfg, g \in ReqIDs : ScanFails(k, g)

SpecLimit == InitManager /\ [][NextLimit]_vars

NextTimeout ==
    \/ \E c \in Callers : RouterCall(c, <<"s", ".", "t">>)
    \/ \E c \in Callers : CallStep(c)
    \/ \E k \in DOMAIN RouterCfg : ChildAnswer(k, "good")
    \/ \E k \in DOMAIN RouterCfg, g \in ReqIDs, torn \in BOOLEAN : ScanLine(k, g, torn)

SpecTimeout == InitManager /\ [][NextTimeout]_vars

(***************************************************************************)
(* Claims                                                                  *)
(***************************************************************************)
\* What a message says, read off its text: whether a string ends with a
\* 6-digit token, that token, and the string before it.
EndsWithCode(str) ==
    LET a == TrimSpace(str)
    IN  /\ Len(a) >= 6
        /\ \A i \in (Len(a) - 5)..Len(a) : a[i] \in Digits
        /\ Len(a) > 6 => a[Len(a) - 6] = Sp

CodeOf(str) == LET a == TrimSpace(str) IN SubSeq(a, Len(a) - 5, Len(a))

BeforeCode(str) == LET a == TrimSpace(str) IN TrimSpace(SubSeq(a, 1, Len(a) - 6))

\* C1: a goroutine whose message comes from a chat outside the allowlist has
\* returned from Handle without a reply, without running an op and without
\* reaching the registry, the verifier, the limiter's account or the store,
\* whatever the text, the update id, the age and the security components.
C1_UnauthorizedSilent ==
    \A h \in Procs :
        (hs[h].pc # "idle" /\ hs[h].chat \notin allowed) =>
            /\ hs[h].pc = "done"
            /\ hs[h].reply = NoVal
            /\ ~hs[h].ran
            /\ hs[h].acts = {}

C1_Witness ==
    \E h \in Procs :
        /\ hs[h].pc = "done"
        /\ hs[h].chat = 999
        /\ hs[h].text = Cmd("echo") \o <<Sp, "hello", Sp>> \o GoodCode
        /\ security = NoSecurity

\* C2: with a verifier attached, a message naming a High-risk op on the
\* direct path ends with the /do hint and no execution; and a High-risk op
\* runs only on the /approve path, after a Consume in the handler's chat of a
\* nonce that /do created for that chat and that op.
C2_HighOnlyByApproval ==
    \A h \in Procs :
        (security.totp /\ Registered(hs[h].op) /\ registry[hs[h].op].risk = RiskHigh) =>
            /\ (hs[h].path = "direct" /\ hs[h].pc # "lookup") =>
                  /\ hs[h].pc = "done"
                  /\ ~hs[h].ran
                  /\ hs[h].reply = "/%s is a high-risk operation. Use /do %s <args> <totp> for two-step approval."
            /\ (hs[h].ran \/ hs[h].pc = "exec") =>
                  /\ hs[h].path = "approve"
                  /\ hs[h].nonce \in consumed
                  /\ hs[h].nonce \in DOMAIN created
                  /\ created[hs[h].nonce].chatID = hs[h].chat
                  /\ created[hs[h].nonce].opName = hs[h].op

C2_Witness ==
    \E h \in Procs :
        /\ hs[h].pc = "done"
        /\ hs[h].ran
        /\ hs[h].path = "approve"
        /\ registry[hs[h].op].risk = RiskHigh
        /\ hs[h].reply = "result"

\* C3: with a verifier attached, a Low-risk op on the direct path gets its
\* execution slot only if the message's args end with a 6-digit token that
\* the verifier accepts, and it then runs with the args before that token;
\* otherwise it never runs and Handle ends with a reply.
C3_LowNeedsCode ==
    \A h \in Procs :
        (security.totp /\ hs[h].path = "direct" /\ hs[h].risk = RiskLow) =>
            LET a == parseCommand(hs[h].text).args
                ok == EndsWithCode(a) /\ Verify(CodeOf(a))
            IN  /\ (hs[h].ran \/ hs[h].pc \in {"acquire", "exec"}) =>
                      /\ ok
                      /\ hs[h].args = BeforeCode(a)
                /\ ~ok => /\ ~hs[h].ran
                          /\ hs[h].pc \in {"totp", "done"}
                          /\ hs[h].pc = "done" => hs[h].reply # NoVal

C3_Witness ==
    \E h \in Procs :
        /\ security.totp
        /\ hs[h].risk = RiskLow
        /\ hs[h].path = "direct"
        /\ hs[h].pc = "exec"
        /\ hs[h].text = Cmd("echo") \o <<Sp, "hello", Sp>> \o GoodCode
        /\ hs[h].args = <<"hello">>

\* C4: a Consume of a nonce that an earlier Consume returned successfully
\* fails, whatever chat it names and whatever Create and Consume calls came
\* between; a successful Consume removes its nonce, so of two Consume calls
\* racing on one live nonce the mutex lets exactly one succeed.
C4_ConsumeOnce ==
    [][stCall'.op = "Consume" =>
         /\ stCall'.nonce \in consumed => stCall'.err # "ok"
         /\ stCall'.err = "ok" => /\ stCall'.nonce \in DOMAIN items
                                  /\ stCall'.nonce \notin DOMAIN items'
                                  /\ stCall'.nonce \in consumed']_vars

\* A nonce was consumed, and a later Consume of it has failed.
C4_Witness ==
    /\ stCall.op = "Consume"
    /\ stCall.nonce \in consumed
    /\ stCall.err # "ok"

\* C5: an update id that Authorize accepted is in the dedup set; while it is
\* there (not evicted) every Authorize with that id from an allowed chat with
\* a fresh timestamp fails as a duplicate and changes nothing; and an id
\* leaves the set only by eviction at capacity.  Two calls with one id are
\* serialized by the mutex, so the second of them meets the first's insert.
C5_DuplicateRejected ==
    [][/\ polCall'.err = "ok" => polCall'.upd \in seen' /\ polCall'.upd \notin seen
       /\ (polCall'.upd \in seen /\ polCall'.chat \in allowed /\ polCall'.age <= freshnessWindow)
             => (polCall'.err = "duplicate" /\ seen' = seen /\ seenOrder' = seenOrder)
       /\ \A u \in seen \ seen' : Cardinality(seen) >= maxSeenIDs /\ polCall'.err = "ok"]_vars

\* An accepted id was presented again and rejected as a duplicate.
C5_Witness ==
    /\ polCall.err = "duplicate"
    /\ polCall.upd \in seen

\* C6: at most maxConcurrentOps goroutines are inside op.Execute at once,
\* whether they came by the direct path or by /approve.
C6_AtMostTwoExecuting ==
    Cardinality({h \in Procs : hs[h].pc = "exec"}) <= maxConcurrentOps

C6_Witness ==
    /\ \E h \in Procs : hs[h].pc = "exec" /\ hs[h].path = "approve"
    /\ \E h \in Procs : hs[h].pc = "exec" /\ hs[h].path = "direct"
    /\ \E h \in Procs : /\ hs[h].pc = "done"
                        /\ hs[h].reply = "Busy - too many operations running. Try again shortly."

\* C7: Check(chat) returns the lockout error exactly while less than 15
\* minutes have passed since a RecordFailure that was the fifth (or a later
\* one) within a 15-minute window; with fewer failures in every window it
\* returns success; and a RecordFailure for one chat leaves the record of
\* every other chat, and so the result of its Check, as it was.
C7_LockoutAtFive ==
    [][/\ \A c \in allowed :
            CheckErr(records', c, now') <=> (\E t \in LockTimes(c)' : now' - t < lockoutDuration)
       /\ limCall'.op = "RecordFailure" =>
            \A c \in allowed \ {limCall'.chat} :
                /\ (c \in DOMAIN records') = (c \in DOMAIN records)
                /\ c \in DOMAIN records => records'[c] = records[c]]_vars

\* A chat is locked by its fifth failure while the other chat, with failures
\* of its own, is not.
C7_Witness ==
    /\ limCall.op = "Check"
    /\ limCall.err
    /\ Len(fails[limCall.chat]) = maxFailures
    /\ \E c \in allowed : c # limCall.chat /\ Len(fails[c]) > 0 /\ ~CheckErr(records, c, now)

\* C8, as stated: a message that arrives when the five latest messages of
\* its chat have all failed the TOTP check is answered "Locked out" and
\* reaches nothing behind the lockout check.
C8_NextMessageLockedOut ==
    \A h \in Procs :
        (hs[h].expect /\ hs[h].pc \notin {"idle", "check"}) =>
            /\ hs[h].reply = "Locked out: %s"
            /\ hs[h].acts = {}

\* The op, the rest and the verdict of a /do message, read off its text.
DoOp(text) == SplitHead(parseCommand(text).args)

DoRest(text) == SplitRest(parseCommand(text).args)

DoOK(text) ==
    /\ EndsWithCode(DoRest(text))
    /\ Verify(CodeOf(DoRest(text)))
    /\ Registered(DoOp(text))

Created(h) ==
    /\ DOMAIN items' \ DOMAIN items = {hs'[h].nonce}
    /\ items'[hs'[h].nonce].chatID = hs'[h].chat
    /\ items'[hs'[h].nonce].opName = DoOp(hs'[h].text)
    /\ items'[hs'[h].nonce].args = BeforeCode(DoRest(hs'[h].text))
    /\ hs'[h].reply = "Pending approval for /%s. Send:\n/approve %s <totp>"

NothingCreated == DOMAIN items' \subseteq DOMAIN items

\* C9, as stated: handleDo never executes an op; when it ends, a valid code
\* with a registered op has created exactly one pending approval holding the
\* chat, the op and the args without the code, and anything else has created
\* none.
C9_DoCreatesOne ==
    [][\A h \in Procs :
          /\ hs'[h].path = "do" => ~hs'[h].ran /\ "Execute" \notin hs'[h].acts
          /\ (hs'[h].path = "do" /\ hs'[h].pc = "done" /\ hs[h].pc # "done") =>
                IF DoOK(hs'[h].text) THEN Created(h) ELSE NothingCreated]_vars

\* C9, amended: the same, unless the store already holds maxPending
\* unexpired approvals when Create runs: then nothing is created and the
\* reply is the store's error.
C9_DoCreatesOneBelowCapacity ==
    [][\A h \in Procs :
          /\ hs'[h].path = "do" => ~hs'[h].ran /\ "Execute" \notin hs'[h].acts
          /\ (hs'[h].path = "do" /\ hs'[h].pc = "done" /\ hs[h].pc # "done") =>
                IF ~DoOK(hs'[h].text) THEN NothingCreated
                ELSE IF Cardinality(DOMAIN pruneLocked(items, now)) >= maxPending
                THEN NothingCreated /\ hs'[h].reply = "Failed to create approval: %s"
                ELSE Created(h)]_vars

C9_Witness ==
    \E h \in Procs :
        /\ hs[h].path = "do"
        /\ hs[h].pc = "done"
        /\ hs[h].nonce \in DOMAIN items
        /\ items[hs[h].nonce].args = <<"hello">>
        /\ hs[h].reply = "Pending approval for /%s. Send:\n/approve %s <totp>"

\* C10: once Consume has succeeded for a goroutine on the /approve path, the
\* op and the args it goes on to execute are those passed to the Create that
\* returned the nonce, for the same chat, and not the args of its message.
C10_ApproveRunsStored ==
    \A h \in Procs :
        (hs[h].path = "approve" /\ (hs[h].nonce # <<>> \/ hs[h].ran \/ hs[h].pc \in {"ap_lookup", "acquire", "exec"})) =>
            /\ hs[h].nonce \in DOMAIN created
            /\ hs[h].nonce \in consumed
            /\ created[hs[h].nonce] = [chatID |-> hs[h].chat, opName |-> hs[h].op, args |-> hs[h].args]

C10_Witness ==
    \E h \in Procs :
        /\ hs[h].path = "approve"
        /\ hs[h].pc = "exec"
        /\ hs[h].op = <<"danger">>
        /\ hs[h].args = <<"hello">>
        /\ parseCommand(hs[h].text).args # hs[h].args

\* The commands of the file the last ReloadCommands read, as the claim counts
\* them: every entry of a JSON list, none for a missing or unreadable file.
FileCmds == CmdFile(reloader.file).cmds

ReloadCommandsReturned == reloader.pc = "idle" /\ reloader.last = "commands"

\* C11 (as stated): after ReloadCommands returns, the registry's names are
\* exactly the built-ins and the names of the file's commands, every command
\* of the file is registered, and no shell command of an earlier file is left.
C11_ReloadExact ==
    ReloadCommandsReturned =>
        /\ DOMAIN registry = DOMAIN StaticOps \cup {FileCmds[i].name : i \in 1..Len(FileCmds)}
        /\ \A i \in 1..Len(FileCmds) :
              /\ Registered(FileCmds[i].name)
              /\ registry[FileCmds[i].name].kind = "shell"
        /\ \A n \in DOMAIN registry :
              registry[n].kind = "shell" => registry[n].src = reloader.file

\* C11 (amended): after ReloadCommands returns, the shell commands in the
\* registry are exactly the commands LoadCommands accepted from the file whose
\* names were free when their turn came: each accepted command's name is
\* registered, bound to the first entry of the file with that name or to the
\* op of another kind that held the name, and every shell command in the
\* registry is such an entry of this file; none of an earlier file is left.
C11_ReloadShellExact ==
    ReloadCommandsReturned =>
        LET cmds == LoadCommands(reloader.file).cmds
        IN  /\ \A i \in 1..Len(cmds) :
                  /\ Registered(cmds[i].name)
                  /\ registry[cmds[i].name].kind = "shell" =>
                        /\ registry[cmds[i].name].src = reloader.file
                        /\ registry[cmds[i].name].idx <= i
            /\ \A n \in DOMAIN registry :
                  registry[n].kind = "shell" =>
                      /\ registry[n].src = reloader.file
                      /\ registry[n].idx \in 1..Len(cmds)
                      /\ cmds[registry[n].idx].name = n
                      /\ \A j \in 1..(registry[n].idx - 1) : cmds[j].name # n
            /\ Range(reloader.shellOpNames) = {n \in DOMAIN registry : registry[n].kind = "shell"}

\* The startup file held cmda and cmdb; the reloaded file holds cmda and cmdc.
C11_Witness ==
    /\ ReloadCommandsReturned
    /\ reloader.file = 4
    /\ <<"cmdb">> \in told
    /\ ~Registered(<<"cmdb">>)
    /\ Registered(<<"cmda">>) /\ registry[<<"cmda">>] = ShellOpOf(4, 1)
    /\ Registered(<<"cmdc">>)

\* C12: a built-in the Reloader was not told to track is in the registry,
\* bound to the op registered at startup, at every moment of every reload.
C12_BuiltinsStay ==
    \A n \in DOMAIN StaticOps \ told :
        /\ Registered(n)
        /\ registry[n] = StaticOps[n]

\* A reload of a file that defines a command named help has returned.
C12_Witness ==
    /\ ReloadCommandsReturned
    /\ reloader.file = 5
    /\ <<"help">> \notin told
    /\ registry[<<"help">>] = StaticOps[<<"help">>]
    /\ Registered(<<"cmda">>) /\ registry[<<"cmda">>] = ShellOpOf(5, 2)
    /\ reloader.shellOpNames = << <<"cmda">> >>

\* C13: of the requests written to a connector, at most one has not had its
\* response returned to its caller (so A's response is returned before B's
\* request is written), and at most one is written and not yet answered.
C13_OneOutstanding ==
    \A k \in DOMAIN procs :
        /\ Cardinality(procs[k].open) <= 1
        /\ Len(procs[k].stdin) <= 1

\* C14: a call that follows a timed-out call on the same connector, and is
\* answered within its own timeout, returns the response to its own request.
C14_CallAfterTimeoutSucceeds ==
    \A c \in Callers :
        (calls[c].pc = "done" /\ calls[c].late /\ calls[c].err # "timed out") =>
            /\ calls[c].err = NoVal
            /\ calls[c].resp = GoodLine(calls[c].id)

\* The qualified name q passes the Router: a connector part and a tool part,
\* both non-empty, around the first dot; the connector configured; the tool
\* in its allowlist or __introspect.
Routable(q) ==
    \E i \in 2..(Len(q) - 1) :
        /\ q[i] = "."
        /\ \A j \in 1..(i - 1) : q[j] # "."
        /\ SubSeq(q, 1, i - 1) \in DOMAIN RouterCfg
        /\ \/ SubSeq(q, i + 1, Len(q)) \in Range(RouterCfg[SubSeq(q, 1, i - 1)].tools)
           \/ SubSeq(q, i + 1, Len(q)) = <<"__", "introspect">>

\* C15: a call is handed to Manager.Call only when its name is routable;
\* otherwise it ends with an error, is not forwarded and writes nothing.
C15_RouterForwardsOnlyAllowed ==
    \A c \in Callers :
        calls[c].pc # "idle" =>
            /\ calls[c].fwd => Routable(calls[c].q)
            /\ calls[c].wrote => calls[c].fwd
            /\ ~Routable(calls[c].q) =>
                  /\ calls[c].pc = "done"
                  /\ calls[c].err # NoVal
                  /\ ~calls[c].fwd
                  /\ ~calls[c].wrote
                  /\ calls[c].id = 0

\* One call was refused for a tool outside the allowlist while another, for
\* __introspect, has written its request.
C15_Witness ==
    \E c, d \in Callers :
        /\ calls[c].q = <<"s", ".", "u">>
        /\ calls[c].pc = "done"
        /\ calls[c].err = "not allowed"
        /\ calls[d].q = <<"s", ".", "__", "introspect">>
        /\ calls[d].wrote
        /\ procs[<<"s">>].stdin = <<calls[d].id>>

\* C16: a call returns a response only if the response carries the id of the
\* request the call wrote; a call that read a line with another id returns an
\* error and no response.
C16_OnlyOwnResponse ==
    \A c \in Callers :
        calls[c].pc = "done" =>
            /\ calls[c].resp # NoLine =>
                  /\ calls[c].resp.id = calls[c].id
                  /\ calls[c].err = NoVal
            /\ (calls[c].got # NoLine /\ calls[c].got.id # calls[c].id) =>
                  /\ calls[c].err # NoVal
                  /\ calls[c].resp = NoLine

\* A call read the well-formed late answer to an earlier request.
C16_Witness ==
    \E c \in Callers :
        /\ calls[c].pc = "done"
        /\ calls[c].got = GoodLine(calls[c].id - 1)
        /\ calls[c].id > 1
        /\ calls[c].err = "response id mismatch"
        /\ calls[c].resp = NoLine

\* C17: a Consume succeeds only for an entry created at most 2 minutes
\* before; for a nonce that a Create returned more than 2 minutes before, and
\* for any nonce no longer stored, it returns the unknown-or-expired error;
\* and after every Create and Consume no stored entry is older than 2 minutes.
C17_ExpiredNeverConsumed ==
    [][stCall'.op \in {"Create", "Consume"} =>
         /\ \A n \in DOMAIN items' : now' - items'[n].createdAt <= expiry
         /\ stCall'.op = "Consume" =>
              /\ stCall'.err = "ok" =>
                    /\ stCall'.nonce \in DOMAIN items
                    /\ now' - items[stCall'.nonce].createdAt <= expiry
              /\ (stCall'.nonce \in DOMAIN items /\ now' - items[stCall'.nonce].createdAt > expiry) =>
                    /\ stCall'.err = "unknown or expired approval nonce"
                    /\ stCall'.ret = NoVal
                    /\ stCall'.nonce \notin consumed']_vars

\* A Consume by the creating chat has failed on an entry that was created at
\* time 0, was never consumed and has expired.
C17_Witness ==
    /\ stCall.op = "Consume"
    /\ stCall.err = "unknown or expired approval nonce"
    /\ stCall.nonce \in DOMAIN created
    /\ stCall.nonce \notin consumed
    /\ created[stCall.nonce].chatID = stCall.chat
    /\ stCall.nonce = <<"n1">>
    /\ now = expiry + 1

\* The unexpired entries of the store at time t.
Unexpired(its, t) == {n \in DOMAIN its : t - its[n].createdAt <= expiry}

\* C18: the store never holds more than maxPending entries; a Create fails,
\* with the capacity error, exactly when maxPending unexpired entries exist,
\* and then leaves the store as it was; with fewer it succeeds and adds one.
C18_CapacityBound ==
    [][/\ Cardinality(DOMAIN items') <= maxPending
       /\ stCall'.op = "Create" =>
            IF Cardinality(Unexpired(items, now')) >= maxPending
            THEN /\ stCall'.err = "too many pending approvals"
                 /\ items' = items
                 /\ created' = created
            ELSE /\ stCall'.err = "ok"
                 /\ stCall'.nonce \notin DOMAIN items
                 /\ DOMAIN items' = Unexpired(items, now') \cup {stCall'.nonce}]_vars

\* The store was full; an entry was consumed or has expired; the Create that
\* followed has succeeded and the store is full again.
C18_Witness ==
    /\ stCall.op = "Create"
    /\ stCall.err = "ok"
    /\ Cardinality(DOMAIN items) = maxPending
    /\ Cardinality(DOMAIN created) > maxPending

\* C19: a Consume that names a live nonce and a chat other than its creator
\* fails with the wrong-chat error and leaves the entry as it was; a Consume
\* of a live nonce by its creator succeeds.
C19_WrongChatKeepsEntry ==
    [][(stCall'.op = "Consume" /\ stCall'.nonce \in Unexpired(items, now')) =>
         IF items[stCall'.nonce].chatID # stCall'.chat
         THEN /\ stCall'.err = "approval nonce belongs to a different chat"
              /\ stCall'.nonce \in DOMAIN items'
              /\ items'[stCall'.nonce] = items[stCall'.nonce]
              /\ stCall'.nonce \notin consumed'
         ELSE /\ stCall'.err = "ok"
              /\ stCall'.ret = [opName |-> created[stCall'.nonce].opName,
                                args |-> created[stCall'.nonce].args]]_vars

\* A Consume by another chat has failed and the entry is still stored.
C19_Witness ==
    /\ stCall.op = "Consume"
    /\ stCall.err = "approval nonce belongs to a different chat"
    /\ stCall.nonce \in DOMAIN items
    /\ items[stCall.nonce].chatID # stCall.chat
    /\ items[stCall.nonce].chatID = created[stCall.nonce].chatID

\* The latest instant at which a RecordFailure locked the chat.
Latest(S) == CHOOSE t \in S : \A u \in S : u <= t

\* C20: a Check for a locked-out chat returns the lockout error exactly when
\* less than 15 minutes have passed since locked_at; the first Check at or
\* after 15 minutes returns success and deletes the chat's record, and the
\* next RecordFailure starts a record with that one failure.
C20_LockoutEnds ==
    [][/\ (limCall'.op = "Check" /\ LockTimes(limCall'.chat) # {}) =>
            LET c == limCall'.chat
                lockedAt == Latest(LockTimes(c))
            IN  /\ limCall'.err <=> now' - lockedAt < lockoutDuration
                /\ limCall'.err => records' = records
                /\ ~limCall'.err => /\ c \notin DOMAIN records'
                                    /\ limCall'.cleared
       /\ (limCall'.op = "RecordFailure" /\ limCall'.chat \notin DOMAIN records) =>
            /\ records'[limCall'.chat].failures = <<now'>>
            /\ IsZero(records'[limCall'.chat].lockedAt)]_vars

\* A chat locked at time 0 has been let through, and its record deleted, by a
\* Check at exactly 15 minutes.
C20_Witness ==
    /\ limCall.op = "Check"
    /\ ~limCall.err
    /\ limCall.cleared
    /\ limCall.chat \notin DOMAIN records
    /\ now = lockoutDuration

(***************************************************************************)
(* Freshness, the concurrency gate, op failures, the dispatcher without    *)
(* security, failed reloads, long response lines, the TOTP window, the     *)
(* daily reminder, the receiver's offset and the config watcher            *)
(***************************************************************************)
\* C21 (as stated): an Authorize call fails as stale exactly when the
\* message is older than 5 minutes.
C21_StaleRejected ==
    polCall.err # NoVal => (polCall.age > freshnessWindow <=> polCall.err = "stale")

\* C21 (amended): an Authorize call for a message older than 5 minutes from
\* an allowlisted chat fails as stale; no call for a message of at most 5
\* minutes does.
C21_StaleRejectedAllowed ==
    polCall.err # NoVal =>
        /\ (polCall.chat \in allowed /\ polCall.age > freshnessWindow) => polCall.err = "stale"
        /\ polCall.age <= freshnessWindow => polCall.err # "stale"

\* A message one minute over the limit was rejected as stale after another
\* had been accepted.
C21_Witness ==
    /\ polCall.err = "stale"
    /\ polCall.age = freshnessWindow + 1
    /\ seen # {}

\* C22: a goroutine at the concurrency gate can always take its step (the
\* acquire does not wait); the step ends Handle with the Busy reply and
\* without Execute exactly when maxConcurrentOps slots are held, and
\* otherwise takes a slot and enters Execute.
C22_BusyIffFull ==
    /\ [](\A h \in Procs : hs[h].pc = "acquire" => ENABLED AcquireStep(h))
    /\ [][\A h \in Procs :
            (hs[h].pc = "acquire" /\ hs'[h] # hs[h]) =>
                IF sem = maxConcurrentOps
                THEN /\ hs'[h].pc = "done"
                     /\ hs'[h].reply = "Busy - too many operations running. Try again shortly."
                     /\ ~hs'[h].ran
                     /\ sem' = sem
                ELSE /\ hs'[h].pc = "exec"
                     /\ hs'[h].reply = NoVal
                     /\ sem' = sem + 1]_vars

\* Two goroutines are inside Execute and the third was sent away as busy.
C22_Witness ==
    \E h \in Procs :
        /\ hs[h].pc = "done"
        /\ hs[h].reply = "Busy - too many operations running. Try again shortly."
        /\ ~hs[h].ran
        /\ \A g \in Procs \ {h} : hs[g].pc = "exec"

\* The text of the error reply for what Execute returned to h.
ErrorReply(h) == ErrorText(hs[h].op, hs[h].ret.out)

\* h's op.Execute has returned an error and h has finished Handle.
FailedOp(h) == hs[h].pc = "done" /\ hs[h].ret.returned /\ hs[h].ret.err

\* C23 (as stated): a Handle call whose op returned an error has sent one
\* reply, the text "Error running /<cmd>: <err>".
C23_ErrorReplied ==
    \A h \in Procs : FailedOp(h) => hs[h].nsent = 1 /\ hs[h].sent = ErrorReply(h)

\* C23 (amended): a Handle call whose op returned an error has sent one
\* reply: the text "Error running /<cmd>: <err>" if that is at most
\* maxMessageLen bytes long, and otherwise the ellipsis followed by the last
\* maxMessageLen - 3 bytes of it.
C23_ErrorRepliedCut ==
    \A h \in Procs : FailedOp(h) =>
        /\ hs[h].nsent = 1
        /\ LET t == ErrorReply(h)
               keep == maxMessageLen - Len(Ellipsis)
           IN  IF Len(t) <= maxMessageLen
               THEN hs[h].sent = t
               ELSE /\ Len(hs[h].sent) = maxMessageLen
                    /\ SubSeq(hs[h].sent, 1, Len(Ellipsis)) = Ellipsis
                    /\ \A i \in 1..keep : hs[h].sent[Len(Ellipsis) + i] = t[Len(t) - keep + i]

\* An approved op failed with a short error and its error reply went out
\* whole.
C23_Witness ==
    /\ FailedOp("h1")
    /\ hs["h1"].path = "approve"
    /\ hs["h1"].ret.out = ShortOut
    /\ hs["h1"].sent = ErrorReply("h1")

\* C24: with no verifier, limiter and store attached, a Handle call that has
\* ended for a message with a command took the direct path with the parsed
\* name and the whole argument text, called neither Verify nor the store,
\* and ran the op exactly if the name is registered, whatever its risk; the
\* limiter and the store are never touched.
C24_NoSecurityRunsAll ==
    /\ records = <<>>
    /\ items = <<>>
    /\ \A h \in Procs :
          LET p == parseCommand(hs[h].text)
          IN  (security = NoSecurity /\ hs[h].pc = "done" /\ p.cmd # <<>>) =>
                 /\ hs[h].path = "direct"
                 /\ hs[h].op = p.cmd
                 /\ hs[h].args = p.args
                 /\ hs[h].acts \subseteq {"Get", "Execute"}
                 /\ hs[h].ran <=> Registered(p.cmd)
                 /\ ~Registered(p.cmd) =>
                       hs[h].reply = "Unknown command: /%s\nSend /help for available commands."

\* A High-risk op named do was run for a /do message.
C24_Witness ==
    /\ security = NoSecurity
    /\ hs["h1"].pc = "done"
    /\ hs["h1"].op = <<"do">>
    /\ hs["h1"].risk = RiskHigh
    /\ hs["h1"].ran
    /\ hs["h1"].reply = "result"

\* C25: after ReloadCommands has returned for a file that LoadCommands
\* rejects, the registry holds no shell command, the Reloader tracks none,
\* and no name it tracked before is bound to a shell command.
C25_FailedReloadLeavesNone ==
    (ReloadCommandsReturned /\ LoadCommands(reloader.file).err) =>
        /\ \A n \in DOMAIN registry : registry[n].kind # "shell"
        /\ \A n \in told : Registered(n) => registry[n].kind # "shell"
        /\ reloader.shellOpNames = <<>>

\* The startup file held cmda; the reloaded file has an entry without a
\* command, and cmda is gone.
C25_Witness ==
    /\ ReloadCommandsReturned
    /\ reloader.file = 6
    /\ LoadCommands(6).err
    /\ <<"cmda">> \in told
    /\ ~Registered(<<"cmda">>)

\* The call has ended after its Scan met the child's correct answer to
\* its own request, n bytes long.
AnsweredInSize(c, n) ==
    /\ calls[c].pc = "done"
    /\ calls[c].got = Sized(GoodLine(calls[c].id), n)

\* C26 (as stated): a call whose correct answer is RespMaxBytes bytes long returns it; a
\* call whose answer is one byte longer returns an error.
C26_LimitInclusive ==
    \A c \in Callers :
        /\ AnsweredInSize(c, RespMaxBytes) => (calls[c].err = NoVal /\ calls[c].resp = calls[c].got)
        /\ AnsweredInSize(c, RespMaxBytes + 1) => (calls[c].err # NoVal /\ calls[c].resp = NoLine)

\* C26, what the code does: the longest answer a call returns has RespMaxBytes - 1
\* bytes.
C26_LimitExclusive ==
    \A c \in Callers :
        /\ AnsweredInSize(c, RespMaxBytes - 1) => (calls[c].err = NoVal /\ calls[c].resp = calls[c].got)
        /\ AnsweredInSize(c, RespMaxBytes) => (calls[c].err = "read from connector" /\ calls[c].resp = NoLine)
        /\ AnsweredInSize(c, RespMaxBytes + 1) => (calls[c].err = "read from connector" /\ calls[c].resp = NoLine)

\* A call returned an answer one byte under the limit.
C26_Witness ==
    \E c \in Callers : AnsweredInSize(c, RespMaxBytes - 1) /\ calls[c].resp = calls[c].got

\* C27: a Verify call at t0 with the code made for a second t accepts it
\* when t lies in [t0 - 30, t0 + 30], and rejects it when the step of t is
\* more than one step from the step of t0.
C27_TotpWindow ==
    (totpCall.code # <<>> /\ Len(totpCall.code) = totpDigits) =>
        /\ (totpCall.t0 - totpPeriod <= totpCall.t /\ totpCall.t <= totpCall.t0 + totpPeriod)
              => totpCall.ok
        /\ (Counter(totpCall.t) > Counter(totpCall.t0) + 1 \/ Counter(totpCall.t) < Counter(totpCall.t0) - 1)
              => ~totpCall.ok

\* A code made 30 seconds before the call, in the step before its step, was
\* accepted.
C27_Witness ==
    /\ totpCall.ok
    /\ totpCall.t = totpCall.t0 - totpPeriod
    /\ Counter(totpCall.t) = Counter(totpCall.t0) - 1

\* C28: PrepareDailyReminder has returned no task more than once for one
\* day, whatever restarts and failed sends lay between its calls; and the
\* tasks a tick holds for sending are marked with the tick's day in the file.
C28_OncePerDay ==
    /\ \A x \in DOMAIN picked : picked[x] <= 1
    /\ sched.pc = "send" =>
          \A i \in 1..Len(taskFile) :
              taskFile[i].id \in sched.due => taskFile[i].last = sched.day

\* A task was returned for day 2 and again for day 3, once each, and the
\* tick of day 3 has ended.
C28_Witness ==
    /\ picked[<<1, 2>>] = 1
    /\ picked[<<1, 3>>] = 1
    /\ sched = NoTick
    /\ today = 3

\* The ids of the server's updates with a text, in the order it got them.
RECURSIVE TextIDs(_)
TextIDs(all) ==
    IF all = <<>> THEN <<>>
    ELSE IF NoText(Head(all)) THEN TextIDs(Tail(all))
    ELSE <<Head(all).id>> \o TextIDs(Tail(all))

\* C29: the offset changes only when the receiver is done with the first
\* update of its batch, and then to that update's id + 1: for an update
\* without text at once and with no handler call, for one with text when the
\* handler has returned; every update done with moves the offset; and the
\* handler has been given the updates with text, each once, in the server's
\* order, up to the one before the offset.
C29_OffsetAfterDispatch ==
    /\ [][/\ rcv'.offset # rcv.offset =>
               /\ rcv.batch # <<>>
               /\ rcv'.batch = Tail(rcv.batch)
               /\ rcv'.offset = Head(rcv.batch).id + 1
               /\ IF NoText(Head(rcv.batch))
                  THEN rcv.pc = "loop" /\ handled' = handled
                  ELSE rcv.pc = "handler" /\ rcv'.pc = "loop"
          /\ (rcv.batch # <<>> /\ rcv'.batch = Tail(rcv.batch)) =>
               rcv'.offset = Head(rcv.batch).id + 1
          /\ handled' # handled =>
               /\ rcv.batch # <<>>
               /\ handled' = Append(handled, Head(rcv.batch).id)
               /\ rcv'.offset = rcv.offset]_vars
    /\ [](\E n \in 0..Len(TextIDs(tg.all)) :
             /\ handled = SubSeq(TextIDs(tg.all), 1, n)
             /\ \A i \in 1..Len(handled) :
                   handled[i] < rcv.offset \/ (i = Len(handled) /\ rcv.pc = "handler")
             /\ \A i \in (n + 1)..Len(TextIDs(tg.all)) : TextIDs(tg.all)[i] >= rcv.offset)

\* An update without text was skipped between two that were handled, and the
\* offset stands behind the last.
C29_Witness ==
    /\ Len(tg.all) = 3
    /\ tg.all[1].kind = "text" /\ tg.all[2].kind = "notext" /\ tg.all[3].kind = "text"
    /\ handled = <<tg.all[1].id, tg.all[3].id>>
    /\ rcv.offset = tg.all[3].id + 1
    /\ rcv.pc = "loop"

\* Poll is at an entry whose file is there with a time other than the recorded one.
Changed(i) ==
    /\ files.mtime[w.entries[i].path] # NoFile
    /\ files.mtime[w.entries[i].path] # w.entries[i].modTime

\* C30: when poll takes its turn at an entry, the entry's callback is called once and the
\* file's time recorded if the file is there with a time other than the
\* recorded one, and otherwise (same time, or no file) nothing is called and
\* nothing recorded; no other entry is touched, and nothing but poll calls
\* back.  A file that was missing at Watch is recorded as zero, so the first
\* poll that finds it calls back.
C30_CallbackOnChange ==
    [][/\ (w.i > 0 /\ w' # w) =>
            /\ w'.i = AfterEntry(w.i)
            /\ \A j \in 1..Len(w.entries) :
                  IF j = w.i /\ Changed(j)
                  THEN /\ w'.calls[j] = w.calls[j] + 1
                       /\ w'.entries[j].modTime = files.mtime[w.entries[j].path]
                  ELSE /\ w'.calls[j] = w.calls[j]
                       /\ w'.entries[j] = w.entries[j]
       /\ w.i = 0 =>
            /\ \A j \in 1..Len(w.entries) : w'.calls[j] = w.calls[j] /\ w'.entries[j] = w.entries[j]
            /\ Len(w'.entries) > Len(w.entries) =>
                  w'.entries[Len(w'.entries)].modTime = files.mtime[w'.entries[Len(w'.entries)].path]]_vars

\* A file watched before it existed has appeared and been reported once, then
\* been deleted and polled again without a further callback.
C30_Witness ==
    /\ Len(w.entries) = 2
    /\ w.i = 0
    /\ w.entries[1].modTime # NoFile
    /\ w.calls[1] = 1
    /\ files.mtime[w.entries[1].path] = NoFile
    /\ files.writes = 2
    /\ w.entries[2].path = w.entries[1].path
    /\ w.entries[2].modTime = NoFile
    /\ w.calls[2] = 0

(***************************************************************************)
(* Reloads under load, the dedup window, the failure window, the limiter's *)
(* account of TOTP checks, case folding, approvals of vanished ops, the    *)
(* slots, and connector reloads                                            *)
(***************************************************************************)
\* C31 (as stated): every config the Reloader is given defines cmda, so a
\* lookup of cmda made after startup, at any moment of any reload, resolves
\* it: no such lookup ends with "Unknown command".
C31_ReloadAtomicForReaders ==
    \A h \in Procs :
        (hs[h].pc = "done" /\ hs[h].op = <<"cmda">> /\ "Get" \in hs[h].acts) =>
            hs[h].reply # "Unknown command: /%s\nSend /help for available commands."

\* C32: the dedup set never holds more than maxSeenIDs ids and seenOrder
\* lists them in the order they were accepted; an accepted message that finds
\* maxSeenIDs ids removes exactly the first pruneCount of that order and then
\* adds its own id at the end, any other accepted message only adds its id;
\* and a fresh message from an allowed chat is accepted exactly if its id is
\* not in the set, so evicted ids pass again and the ids kept are duplicates.
C32_DedupWindow ==
    /\ [](/\ Cardinality(seen) <= maxSeenIDs
          /\ Range(seenOrder) = seen
          /\ Len(seenOrder) = Cardinality(seen))
    /\ [][(polCall' # polCall \/ seen' # seen \/ seenOrder' # seenOrder) =>
            LET upd == polCall'.upd
                oldest == {seenOrder[i] : i \in 1..pruneCount}
                open == polCall'.chat \in allowed /\ polCall'.age <= freshnessWindow
            IN  /\ open => (polCall'.err = "ok" <=> upd \notin seen)
                /\ open => (polCall'.err = "duplicate" <=> upd \in seen)
                /\ IF polCall'.err # "ok"
                   THEN seen' = seen /\ seenOrder' = seenOrder
                   ELSE IF Cardinality(seen) = maxSeenIDs
                   THEN /\ Cardinality(oldest) = pruneCount
                        /\ seen' = (seen \ oldest) \cup {upd}
                        /\ seenOrder' = Append(SubSeq(seenOrder, pruneCount + 1, Len(seenOrder)), upd)
                        /\ Cardinality(seen') = maxSeenIDs - pruneCount + 1
                   ELSE /\ seen' = seen \cup {upd}
                        /\ seenOrder' = Append(seenOrder, upd)]_vars

\* An id that was evicted has been accepted again, by a call that evicted the
\* oldest of the ids then held, while the newer ones are still held.
C32_Witness ==
    /\ polCall.err = "ok"
    /\ polCall.upd \in polCall.gone
    /\ polCall.upd \in seen
    /\ Cardinality(polCall.gone) >= 2
    /\ Len(seenOrder) = maxSeenIDs - pruneCount + 1
    /\ seenOrder[Len(seenOrder)] = polCall.upd

\* The failures of a chat's history that lie within failureWindow before t.
InWindow(fs, t) == {j \in 1..Len(fs) : fs[j] > t - failureWindow}

\* C33: a RecordFailure sets the chat's locked_at to now exactly if, with the
\* new failure, at least maxFailures of the failures recorded for the chat
\* (since its record was last cleared) are less than failureWindow old, and
\* otherwise leaves locked_at as it was: zero for a chat that was not locked.
C33_WindowedThreshold ==
    [][(limCall'.op = "RecordFailure" /\ fails' # fails) =>
          LET c == limCall'.chat
              before == IF c \in DOMAIN records THEN records[c].lockedAt ELSE ZeroTime
          IN  /\ c \in DOMAIN records'
              /\ fails'[c] = Append(fails[c], now)
              /\ IF Cardinality(InWindow(fails'[c], now)) >= maxFailures
                 THEN records'[c].lockedAt = now
                 ELSE records'[c].lockedAt = before
              /\ Len(records'[c].failures) = Cardinality(InWindow(fails'[c], now))]_vars

\* A fifth failure, recorded when the four before it were failureWindow old
\* or older, has left the chat unlocked.
C33_Witness ==
    /\ limCall.op = "RecordFailure"
    /\ limCall.chat = 100
    /\ Len(fails[100]) = maxFailures
    /\ \A j \in 1..(maxFailures - 1) : fails[100][j] <= now - failureWindow
    /\ fails[100][maxFailures] = now
    /\ IsZero(records[100].lockedAt)

\* Where Handle stands before a TOTP check, and the string the check looks
\* for the code in.
GatePcs == {"totp", "do_totp", "ap_totp"}

GateArgs(h) ==
    IF hs[h].pc = "do_totp" THEN SplitRest(parseCommand(hs[h].text).args)
    ELSE parseCommand(hs[h].text).args

\* C34: the step of a Handle call that makes the TOTP check, on the direct
\* path of a Low-risk op, in /do or in /approve, adds one failure at now to
\* the chat's account if the code is missing or rejected and clears the
\* account if it is accepted; a call makes the check at most once, the direct
\* path makes it only for a registered Low-risk op, and no other step of
\* Handle after the lockout check touches the limiter.
C34_TotpAccountedOnce ==
    [][\A h \in Procs :
          LET c == hs[h].chat
              moved == hs'[h] # hs[h]
              ok == EndsWithCode(GateArgs(h)) /\ Verify(CodeOf(GateArgs(h)))
          IN  /\ (security.limiter /\ moved /\ hs[h].pc \in GatePcs) =>
                    /\ hs'[h].pc \notin GatePcs
                    /\ IF ok
                       THEN /\ fails'[c] = <<>>
                            /\ c \notin DOMAIN records'
                            /\ hs'[h].pc # "done"
                       ELSE /\ fails'[c] = Append(fails[c], now)
                            /\ c \in DOMAIN records'
                            /\ Len(records'[c].failures) =
                                  Len(FreshFailures(records, c, now)) + 1
                            /\ hs'[h].pc = "done"
                    /\ \A d \in DOMAIN fails \ {c} : fails'[d] = fails[d]
              /\ (moved /\ hs'[h].pc \in GatePcs) =>
                    /\ hs[h].pc \in {"check", "lookup"}
                    /\ hs[h].pc = "lookup" =>
                          /\ Registered(hs[h].op)
                          /\ RiskOf(registry[hs[h].op]) = RiskLow
              /\ (moved /\ hs[h].pc \notin GatePcs \cup {"check"}) =>
                    /\ records' = records
                    /\ fails' = fails]_vars

\* The chat's second message in a row without an accepted code, a /do with a
\* rejected code, has been answered, and the account holds two failures.
C34_Witness ==
    /\ security.limiter
    /\ hs["h1"].pc = "done"
    /\ hs["h1"].path = "do"
    /\ hs["h1"].reply = "Invalid TOTP code."
    /\ Len(fails[100]) = 2
    /\ Len(records[100].failures) = 2

\* The op name as the message spells it: the command itself on the direct
\* path, without its @botname, and the first word after /do.
TypedName(h) ==
    LET t == TrimSpace(hs[h].text)
        head == SplitHead(SubSeq(t, 2, Len(t)))
    IN  IF hs[h].path = "do" THEN SplitHead(parseCommand(hs[h].text).args)
        ELSE IF Index(head, "@") # 0 THEN SubSeq(head, 1, Index(head, "@") - 1)
        ELSE head

\* C35 (as stated): the name a Handle call has looked up in the registry, on
\* the direct path and in /do, is the lower-cased spelling of the name in its
\* message, so the call does not answer "Unknown command" for a name whose
\* lower-cased spelling is registered.
C35_LookupsLowerCased ==
    \A h \in Procs :
        (hs[h].path \in {"direct", "do"} /\ "Get" \in hs[h].acts) =>
            /\ hs[h].op = ToLower(TypedName(h))
            /\ Registered(ToLower(TypedName(h))) =>
                  hs[h].reply \notin {"Unknown command: /%s",
                                      "Unknown command: /%s\nSend /help for available commands."}

\* C36: when handleApprove, after a successful Consume, finds the stored op
\* gone from the registry, it replies that the operation is no longer
\* registered and returns without running anything, and the nonce stays
\* consumed; a Consume for a nonce that was consumed before fails as unknown
\* or expired, and the call that made it runs nothing.
C36_VanishedOpConsumed ==
    /\ [][\A h \in Procs :
             /\ (hs[h].pc = "ap_lookup" /\ hs'[h] # hs[h] /\ ~Registered(hs[h].op)) =>
                   /\ hs'[h].pc = "done"
                   /\ hs'[h].reply = "Operation /%s no longer registered."
                   /\ ~hs'[h].ran /\ ~hs'[h].held
                   /\ hs[h].nonce \in consumed'
                   /\ hs[h].nonce \notin DOMAIN items'
             /\ (hs[h].pc = "ap_consume" /\ hs'[h] # hs[h] /\ TrimSpace(hs[h].args) \in consumed) =>
                   /\ ConsumeErr(TrimSpace(hs[h].args), hs[h].chat) = "unknown or expired approval nonce"
                   /\ hs'[h].pc = "done"
                   /\ hs'[h].reply = "Approval failed: %s"]_vars
    /\ [](\A h \in Procs :
             (hs[h].reply = "Operation /%s no longer registered.") =>
                 /\ ~hs[h].ran
                 /\ "Execute" \notin hs[h].acts
                 /\ hs[h].nonce \in consumed
                 /\ hs[h].nonce \notin DOMAIN items)

\* An /approve for a command that a reload has removed since its /do has
\* been answered: nothing ran and the nonce is spent.
C36_Witness ==
    /\ hs["h1"].pc = "done"
    /\ hs["h1"].path = "approve"
    /\ hs["h1"].reply = "Operation /%s no longer registered."
    /\ hs["h1"].op = <<"cmda">>
    /\ hs["h1"].nonce \in consumed
    /\ ~Registered(<<"cmda">>)
    /\ reloader.pc = "idle"
    /\ reloader.last = "commands"

\* C37: the step of handleApprove that finds the code missing or rejected
\* ends the call and leaves the store as it was, so that every nonce a chat
\* could consume before it can still be consumed after; and no call reaches
\* Consume unless its message ends with a code the verifier accepts.
C37_FailedApproveKeepsStore ==
    /\ [][\A h \in Procs :
             (/\ hs[h].pc = "ap_totp"
              /\ hs'[h] # hs[h]
              /\ ~(EndsWithCode(GateArgs(h)) /\ Verify(CodeOf(GateArgs(h))))) =>
                 /\ hs'[h].pc = "done"
                 /\ hs'[h].reply \in {"Usage: /approve <nonce> <totp>", "Invalid TOTP code."}
                 /\ "Consume" \notin hs'[h].acts
                 /\ items' = items
                 /\ consumed' = consumed
                 /\ created' = created
                 /\ nonceCtr' = nonceCtr
                 /\ \A n \in Nonces, c \in allowed :
                       ConsumeErr(n, c) = "ok" => ConsumeErr(n, c)' = "ok"]_vars
    /\ [](\A h \in Procs :
             "Consume" \in hs[h].acts =>
                 /\ hs[h].path = "approve"
                 /\ EndsWithCode(parseCommand(hs[h].text).args)
                 /\ Verify(CodeOf(parseCommand(hs[h].text).args)))

\* An /approve with a rejected code has been answered while the nonce it
\* names is pending for its chat and can be consumed.
C37_Witness ==
    /\ hs["h1"].pc = "done"
    /\ hs["h1"].path = "approve"
    /\ hs["h1"].text = Cmd("approve") \o <<Sp, "n1", Sp>> \o BadCode
    /\ hs["h1"].reply = "Invalid TOTP code."
    /\ <<"n1">> \in DOMAIN items
    /\ ConsumeErr(<<"n1">>, hs["h1"].chat) = "ok"

\* The nonce an /approve message names.
NamedNonce(h) == TrimSpace(extractTOTP(parseCommand(hs[h].text).args).realArgs)

\* C38: an /approve that has consumed its nonce and finds both slots held is
\* answered "Busy" without running the op, and the nonce stays consumed and
\* out of the store; a Consume of a nonce consumed before fails and its call
\* is answered "Approval failed"; a Consume succeeds only for a nonce not
\* consumed before, and only a call whose own Consume succeeded gets to run
\* the stored op, so no nonce is run twice.
C38_BusyApproveSpendsNonce ==
    /\ [][\A h \in Procs :
             /\ (/\ hs[h].pc = "acquire" /\ hs[h].path = "approve"
                 /\ hs'[h] # hs[h] /\ sem = maxConcurrentOps) =>
                    /\ hs'[h].pc = "done"
                    /\ hs'[h].reply = "Busy - too many operations running. Try again shortly."
                    /\ ~hs'[h].ran
                    /\ hs[h].nonce \in consumed'
                    /\ hs[h].nonce \notin DOMAIN items'
             /\ (hs[h].pc = "ap_consume" /\ hs'[h] # hs[h]) =>
                    IF TrimSpace(hs[h].args) \in consumed
                    THEN /\ hs'[h].pc = "done"
                         /\ hs'[h].reply = "Approval failed: %s"
                         /\ hs'[h].nonce = <<>>
                    ELSE hs'[h].nonce # <<>> => hs'[h].nonce \in consumed' \ consumed
             /\ consumed \subseteq consumed'
             /\ (hs[h].pc # "ap_consume" /\ hs[h].nonce \in consumed) =>
                    hs[h].nonce \notin DOMAIN items']_vars
    /\ [](\A h \in Procs :
             (hs[h].path = "approve" /\ (hs[h].ran \/ hs[h].pc \in {"acquire", "exec"})) =>
                 /\ hs[h].nonce \in consumed
                 /\ \A g \in Procs \ {h} : hs[g].path = "approve" => hs[g].nonce # hs[h].nonce)

\* One /approve was sent away as busy after consuming its nonce, and the
\* same /approve, sent again, has been answered "Approval failed".
C38_Witness ==
    \E h, g \in Procs :
        /\ h # g
        /\ hs[h].pc = "done" /\ hs[h].path = "approve" /\ ~hs[h].ran
        /\ hs[h].reply = "Busy - too many operations running. Try again shortly."
        /\ hs[h].nonce \in consumed
        /\ hs[g].pc = "done" /\ hs[g].path = "approve" /\ ~hs[g].ran
        /\ hs[g].reply = "Approval failed: %s"
        /\ hs[g].text = hs[h].text
        /\ NamedNonce(g) = hs[h].nonce

\* C39: the slots held are exactly those of the Handle calls that have
\* acquired one and not yet returned, so with no call in progress none is
\* held; a call that gets past the gate takes one slot and keeps it until it
\* returns, and its return gives back that slot and no other, whatever
\* Execute returned and whether or not the reply was delivered.
C39_SlotsReleased ==
    /\ [](/\ sem = Cardinality({h \in Procs : hs[h].held})
          /\ \A h \in Procs : hs[h].held => hs[h].pc \in {"exec", "done"}
          /\ (\A h \in Procs : hs[h].pc = "idle") => sem = 0)
    /\ [][\A h \in Procs :
             /\ (hs[h].pc = "done" /\ hs'[h] # hs[h]) =>
                   /\ hs'[h] = Idle
                   /\ sem' = IF hs[h].held THEN sem - 1 ELSE sem
             /\ (hs[h].pc = "exec" /\ hs'[h] # hs[h]) =>
                   /\ hs'[h].pc = "done"
                   /\ hs'[h].held
                   /\ sem' = sem
             /\ (hs[h].pc = "acquire" /\ hs'[h].pc = "exec") =>
                   /\ hs'[h].held
                   /\ sem' = sem + 1]_vars

\* An /approve whose op timed out and whose reply was not delivered is about
\* to return with its slot, the only one held; the approval it consumed was
\* created by a /do whose call has returned.
C39_Witness ==
    /\ hs["h1"].pc = "done"
    /\ hs["h1"].path = "approve"
    /\ hs["h1"].held
    /\ hs["h1"].ret.out = DeadlineOut
    /\ ~hs["h1"].delivered
    /\ hs["h2"].pc = "idle"
    /\ sem = 1

ReloadConnectorsReturned == reloader.pc = "idle" /\ reloader.last = "connectors"

\* The names the registry reg binds to a ConnectorOp.
ConnOpsOf(reg) == {n \in DOMAIN reg : reg[n].kind = "conn"}

\* C40: when ReloadConnectors loads the config, the connector ops tracked
\* before are unregistered and the prior manager's children are stopped; a
\* call that returns from the load (an error, a missing or empty config, a
\* child that did not start) leaves no connector op registered and no child
\* running; and after any return the registered connector ops are exactly
\* the tracked ones, each bound to the Reloader's manager, whose children run.
C40_NoOpOnStoppedManager ==
    /\ [](reloader.pc = "rn_load" =>
             /\ ConnOpsOf(registry) = {}
             /\ reloader.connOpNames = <<>>
             /\ procs = Shutdown)
    /\ [][(reloader.pc = "rn_load" /\ reloader'.pc = "idle") =>
             /\ ConnOpsOf(registry') = {}
             /\ reloader'.connOpNames = <<>>
             /\ procs' = Shutdown]_vars
    /\ [](ReloadConnectorsReturned =>
             /\ Range(reloader.connOpNames) = ConnOpsOf(registry)
             /\ ConnOpsOf(registry) # {} =>
                   /\ reloader.connMgr # 0
                   /\ \A n \in ConnOpsOf(registry) : registry[n].src = reloader.connMgr
                   /\ procs = Started(LoadConfig(reloader.connMgr).connectors)
                   /\ procs # Shutdown
             /\ (LoadConfig(reloader.file).err
                 \/ LoadConfig(reloader.file).nil
                 \/ DOMAIN LoadConfig(reloader.file).connectors = {}) =>
                   /\ ConnOpsOf(registry) = {}
                   /\ procs = Shutdown)

\* The manager of config 5 served two ops; the reload for config 4 stopped
\* it and could not start its own child: nothing is registered or running.
C40_Witness ==
    /\ ReloadConnectorsReturned
    /\ reloader.connMgr = 5
    /\ reloader.file = 4
    /\ ConnOpsOf(registry) = {}
    /\ reloader.connOpNames = <<>>
    /\ procs = Shutdown

====
